---------------------------- MODULE Spec2Model ----------------------------
(***************************************************************************)
(* LocalFirst Orchestrator (LFO): the two per-backend circuit breakers     *)
(* (lfo-core/src/providers/android.ts, gemini.ts), the routing functions   *)
(* (lfo-core/src/routing.ts), the statistics recorder (stats.ts), the      *)
(* POST /v1/chat/completions handler (router.ts) and the TCP server of the *)
(* device (lfo-mobile src/server.ts).                                      *)
(*                                                                         *)
(* Node runs one callback at a time: a handler runs without interruption   *)
(* from the event that wakes it up to its next await of a backend call.    *)
(* Each action below is one such uninterrupted run.                        *)
(*                                                                         *)
(* Time is Date.now() in milliseconds; it advances in steps of TickMs.     *)
(***************************************************************************)
EXTENDS Integers, Sequences, FiniteSets, TLC

VARIABLES
    now,                    \* Date.now()
    \* android.ts module state
    circuitState, consecutiveFailures, openedAt, halfOpenProbeInFlight,
    \* gemini.ts module state
    cbState, cbFailures, cbOpenedAt, cbHalfOpenInFlight,
    \* stats.ts module state
    ringBuffer, totalRequests, totalLocal, totalCloud, totalErrors,
    sumLatencyLocal, sumLatencyCloud, circuitTripCount,
    \* one entry per caller / request slot
    pc,                     \* "idle", "await_local" (fetch to the bridge in flight),
                            \* "await_cloud" (sendMessage in flight)
    callStart,              \* when the backend call in flight was started
    probe,                  \* history: the call in flight was admitted in HALF_OPEN
    ctx,                    \* the handler's locals that live across an await, and the
                            \* request's history: rawMode and rawThreshold are its
                            \* metadata.mode and metadata.confidence_threshold,
                            \* localCalls / cloudCalls count its
                            \* calls of providers.android / providers.gemini,
                            \* localResult is what providers.android returned to it
    \* history variables
    out,                    \* the last value returned / response written (probe: by
                            \* a call that had been admitted in HALF_OPEN)
    androidFailsSince,      \* tripworthy local failures reported since the last success
    geminiFailsSince,       \* tripworthy cloud failures reported since the last success
    androidFetches,         \* number of fetchFromAndroid calls started
    geminiSends,            \* number of fetchFromGemini calls started
    \* lfo-mobile src/server.ts: one TCP connection to the server of the device
    tcp                     \* [buffer, ended] of the connection's callback, with the
                            \* history of the connection: data events so far, calls of
                            \* runCompletion in progress and started, lines written

androidVars == <<circuitState, consecutiveFailures, openedAt, halfOpenProbeInFlight>>
geminiVars  == <<cbState, cbFailures, cbOpenedAt, cbHalfOpenInFlight>>
ringVars    == <<ringBuffer, totalRequests, totalLocal, totalCloud, totalErrors,
                 sumLatencyLocal, sumLatencyCloud>>
statsVars   == <<ringVars, circuitTripCount>>
slotVars    == <<pc, callStart, probe, ctx>>
histVars    == <<out, androidFailsSince, geminiFailsSince, androidFetches, geminiSends>>
vars        == <<now, androidVars, geminiVars, statsVars, slotVars, histVars, tcp>>

---------------------------------------------------------------------------
(* Program constants *)

FAILURE_THRESHOLD == 3
RESET_TIMEOUT_MS == 30000
CB_FAILURE_THRESHOLD == 3
CB_RESET_TIMEOUT_MS == 60000
ANDROID_TIMEOUT == 30000
GEMINI_TIMEOUT == 60000
RING_SIZE == 50

(* Bounds of the model *)

TickMs == 30000         \* granularity of the clock
MaxTicks == 2           \* the clock stops at MaxTicks * TickMs
NumSlots == 2           \* callers / requests in progress at the same time
MaxCalls == 6           \* backend calls started in one behaviour of SpecCB
MaxRequests == 2        \* requests accepted in one behaviour of Spec

Slots == 1 .. NumSlots

---------------------------------------------------------------------------
(* Arithmetic *)

\* Math.ceil(a / b) for an integer a of either sign and b > 0
Ceil(a, b) == -((-a) \div b)

---------------------------------------------------------------------------
(* Error messages.  A message is identified by the template that produced *)
(* it; secs is the number interpolated into a circuit-open message (0 in  *)
(* every other message).  Includes(m, s) is m.includes(s) for the         *)
(* substrings the code searches for.                                      *)

Msg(id) == [id |-> id, secs |-> 0]

\* android.ts:141 "Android timeout after 30000ms. Check device connectivity."
AndroidTimeoutMsg == Msg("android_timeout")
\* android.ts:145 "Cannot reach Android device at <url>. Verify IP and port in .env"
AndroidUnreachableMsg == Msg("android_unreachable")
\* android.ts:109 "Android HTTP <status>: <statusText>"; android.ts:115 "Android error:
\* <data.error>" reads the same where the device's text holds none of the substrings
\* the handler searches for
AndroidHttpMsg == Msg("android_http")
\* android.ts:123 "Android response missing both text and function_calls"
AndroidEmptyMsg == Msg("android_empty")
\* android.ts:147 an error of fetch or of response.json() rethrown as it is, such as
\* "fetch failed" or "Unexpected token < in JSON at position 0"
AndroidRethrownMsg == Msg("android_rethrown")
\* android.ts:164 "Android circuit breaker is open. Device assumed offline. Will retry in ~<secs>s"
AndroidCircuitOpenMsg(secs) == [id |-> "android_circuit_open", secs |-> secs]

\* gemini.ts:136 "Gemini timeout after 60000ms"
GeminiTimeoutMsg == Msg("gemini_timeout")
\* gemini.ts:199 "Gemini API key is invalid or revoked. Check GEMINI_API_KEY in .env"
GeminiAuthMsg == Msg("gemini_auth")
\* gemini.ts:200 "Gemini rate limit exceeded. Please try again later."
GeminiRateLimitMsg == Msg("gemini_rate_limit")
\* gemini.ts:201 "Gemini API quota exceeded. Check your API key and billing."
GeminiQuotaMsg == Msg("gemini_quota")
\* gemini.ts:187 "Gemini returned empty response"
GeminiEmptyMsg == Msg("gemini_empty")
\* gemini.ts:202 an error of the SDK rethrown as it is, such as
\* "[GoogleGenerativeAI Error]: Error fetching from <url>: [500 Internal Server Error]"
GeminiRethrownMsg == Msg("gemini_rethrown")
\* gemini.ts:216 "Gemini circuit breaker open. Gemini appears unavailable. Will retry in ~<secs>s"
GeminiCircuitOpenMsg(secs) == [id |-> "gemini_circuit_open", secs |-> secs]

\* android.ts:115 "Android error: <data.error>", the bridge's own report of an error
AndroidDeviceErrorMsg == Msg("android_device_error")
\* android.ts:150 "Android unknown error"
AndroidUnknownMsg == Msg("android_unknown")
\* gemini.ts:204 "Gemini unknown error"
GeminiUnknownMsg == Msg("gemini_unknown")
\* router.ts: "LFO routing error", the message of the catch block for a thrown value
\* that is no Error
LfoRoutingErrorMsg == Msg("lfo_routing_error")
\* a thrown value that is no Error (an injected provider can throw one)
NonErrorThrown == Msg("non_error")

Needles(id) ==
    CASE id = "android_timeout"      -> {"Android", "timeout"}
      [] id = "android_unreachable"  -> {"Android", "Cannot reach"}
      [] id = "android_http"         -> {"Android"}
      [] id = "android_empty"        -> {"Android"}
      [] id = "android_circuit_open" -> {"Android", "circuit", "circuit breaker is open"}
      [] id = "gemini_timeout"       -> {"Gemini", "timeout"}
      [] id = "gemini_auth"          -> {"Gemini", "invalid or revoked"}
      [] id = "gemini_rate_limit"    -> {"Gemini", "rate limit"}
      [] id = "gemini_quota"         -> {"Gemini", "quota", "quota exceeded"}
      [] id = "gemini_empty"         -> {"Gemini"}
      [] id = "gemini_circuit_open"  -> {"Gemini", "circuit"}
      [] id = "android_device_error" -> {"Android"}
      [] id = "android_unknown"      -> {"Android"}
      [] id = "gemini_unknown"       -> {"Gemini"}
      [] OTHER                       -> {}

Includes(m, s) == s \in Needles(m.id)

\* what fetchFromAndroid can throw (android.ts:135-150)
AndroidFailures == {AndroidTimeoutMsg, AndroidUnreachableMsg, AndroidHttpMsg, AndroidEmptyMsg,
                    AndroidRethrownMsg}
\* what fetchFromGemini can throw (gemini.ts:195-205)
GeminiFailures == {GeminiTimeoutMsg, GeminiAuthMsg, GeminiRateLimitMsg, GeminiQuotaMsg,
                   GeminiEmptyMsg, GeminiRethrownMsg}

---------------------------------------------------------------------------
(* The Android circuit breaker (android.ts:18-65).  The functions read and *)
(* write the module's variables; here they map a record of those variables *)
(* to the record after the call.                                           *)

AndroidCB == [circuitState          |-> circuitState,
              consecutiveFailures   |-> consecutiveFailures,
              openedAt              |-> openedAt,
              halfOpenProbeInFlight |-> halfOpenProbeInFlight,
              circuitTripCount      |-> circuitTripCount]

\* circuitAllow without the test of the reset timeout
circuitAllowIgnoringTimeout(cb, t) ==
    IF cb.circuitState = "CLOSED" THEN [ok |-> TRUE, cb |-> cb]
    ELSE IF cb.circuitState = "OPEN"
    THEN [ok |-> TRUE,
          cb |-> [cb EXCEPT !.circuitState = "HALF_OPEN", !.halfOpenProbeInFlight = TRUE]]
    ELSE IF cb.halfOpenProbeInFlight THEN [ok |-> FALSE, cb |-> cb]
    ELSE [ok |-> TRUE, cb |-> [cb EXCEPT !.halfOpenProbeInFlight = TRUE]]

circuitAllow(cb, t) ==
    IF cb.circuitState = "CLOSED" THEN [ok |-> TRUE, cb |-> cb]
    ELSE IF cb.circuitState = "OPEN" THEN
        IF t - cb.openedAt >= RESET_TIMEOUT_MS
        THEN [ok |-> TRUE,
              cb |-> [cb EXCEPT !.circuitState = "HALF_OPEN",
                                !.halfOpenProbeInFlight = TRUE]]
        ELSE [ok |-> FALSE, cb |-> cb]
    ELSE IF cb.halfOpenProbeInFlight THEN [ok |-> FALSE, cb |-> cb]
    ELSE [ok |-> TRUE, cb |-> [cb EXCEPT !.halfOpenProbeInFlight = TRUE]]

\* circuitOnSuccess that resets the counter and leaves the state as it is
circuitOnSuccessKeepingState(cb) ==
    [cb EXCEPT !.consecutiveFailures = 0, !.halfOpenProbeInFlight = FALSE]

\* circuitOnSuccess that forgets to reset the failure counter
circuitOnSuccessKeepingCount(cb) ==
    [cb EXCEPT !.circuitState = "CLOSED", !.halfOpenProbeInFlight = FALSE]

circuitOnSuccess(cb) ==
    [cb EXCEPT !.circuitState = "CLOSED",
               !.consecutiveFailures = 0,
               !.halfOpenProbeInFlight = FALSE]

\* circuitOnFailure that leaves halfOpenProbeInFlight as it was
circuitOnFailureKeepingProbeFlag(cb, t) ==
    LET n == cb.consecutiveFailures + 1 IN
    IF cb.circuitState = "HALF_OPEN" \/ n >= FAILURE_THRESHOLD
    THEN [cb EXCEPT !.consecutiveFailures = n,
                    !.circuitState = "OPEN",
                    !.openedAt = t,
                    !.circuitTripCount = @ + 1]
    ELSE [cb EXCEPT !.consecutiveFailures = n]

\* circuitOnFailure with > in place of >= in the test of the threshold
circuitOnFailureOffByOne(cb, t) ==
    LET n == cb.consecutiveFailures + 1 IN
    IF cb.circuitState = "HALF_OPEN" \/ n > FAILURE_THRESHOLD
    THEN [cb EXCEPT !.halfOpenProbeInFlight = FALSE,
                    !.consecutiveFailures = n,
                    !.circuitState = "OPEN",
                    !.openedAt = t,
                    !.circuitTripCount = @ + 1]
    ELSE [cb EXCEPT !.halfOpenProbeInFlight = FALSE,
                    !.consecutiveFailures = n]

circuitOnFailure(cb, t) ==
    LET n == cb.consecutiveFailures + 1 IN
    IF cb.circuitState = "HALF_OPEN" \/ n >= FAILURE_THRESHOLD
    THEN [cb EXCEPT !.halfOpenProbeInFlight = FALSE,
                    !.consecutiveFailures = n,
                    !.circuitState = "OPEN",
                    !.openedAt = t,
                    !.circuitTripCount = @ + 1]     \* incrementCircuitTrips()
    ELSE [cb EXCEPT !.halfOpenProbeInFlight = FALSE,
                    !.consecutiveFailures = n]

\* resetCircuitBreaker (the trip counter belongs to stats.ts and is kept)
resetCircuitBreaker(cb) ==
    [cb EXCEPT !.circuitState = "CLOSED",
               !.consecutiveFailures = 0,
               !.openedAt = 0,
               !.halfOpenProbeInFlight = FALSE]

SetAndroidCB(cb) ==
    /\ circuitState' = cb.circuitState
    /\ consecutiveFailures' = cb.consecutiveFailures
    /\ openedAt' = cb.openedAt
    /\ halfOpenProbeInFlight' = cb.halfOpenProbeInFlight
    /\ circuitTripCount' = cb.circuitTripCount

---------------------------------------------------------------------------
(* The Gemini circuit breaker (gemini.ts:49-92) *)

GeminiCB == [cbState            |-> cbState,
             cbFailures         |-> cbFailures,
             cbOpenedAt         |-> cbOpenedAt,
             cbHalfOpenInFlight |-> cbHalfOpenInFlight]

\* cbAllow that also refuses while the Android breaker is open
cbAllowBehindAndroidBreaker(cb, t) ==
    IF circuitState = "OPEN" THEN [ok |-> FALSE, cb |-> cb]
    ELSE IF cb.cbState = "CLOSED" THEN [ok |-> TRUE, cb |-> cb]
    ELSE IF cb.cbState = "OPEN" THEN
        IF t - cb.cbOpenedAt >= CB_RESET_TIMEOUT_MS
        THEN [ok |-> TRUE,
              cb |-> [cb EXCEPT !.cbState = "HALF_OPEN", !.cbHalfOpenInFlight = TRUE]]
        ELSE [ok |-> FALSE, cb |-> cb]
    ELSE IF cb.cbHalfOpenInFlight THEN [ok |-> FALSE, cb |-> cb]
    ELSE [ok |-> TRUE, cb |-> [cb EXCEPT !.cbHalfOpenInFlight = TRUE]]

cbAllow(cb, t) ==
    IF cb.cbState = "CLOSED" THEN [ok |-> TRUE, cb |-> cb]
    ELSE IF cb.cbState = "OPEN" THEN
        IF t - cb.cbOpenedAt >= CB_RESET_TIMEOUT_MS
        THEN [ok |-> TRUE,
              cb |-> [cb EXCEPT !.cbState = "HALF_OPEN", !.cbHalfOpenInFlight = TRUE]]
        ELSE [ok |-> FALSE, cb |-> cb]
    ELSE IF cb.cbHalfOpenInFlight THEN [ok |-> FALSE, cb |-> cb]
    ELSE [ok |-> TRUE, cb |-> [cb EXCEPT !.cbHalfOpenInFlight = TRUE]]

\* cbSuccess that forgets to reset the failure counter
cbSuccessKeepingCount(cb) ==
    [cb EXCEPT !.cbState = "CLOSED", !.cbHalfOpenInFlight = FALSE]

cbSuccess(cb) ==
    [cb EXCEPT !.cbState = "CLOSED", !.cbFailures = 0, !.cbHalfOpenInFlight = FALSE]

\* cbFailure that reopens the breaker without refreshing cbOpenedAt
cbFailureStaleOpenedAt(cb, tripworthy, t) ==
    IF ~tripworthy THEN [cb EXCEPT !.cbHalfOpenInFlight = FALSE]
    ELSE LET n == cb.cbFailures + 1 IN
         IF cb.cbState = "HALF_OPEN" \/ n >= CB_FAILURE_THRESHOLD
         THEN [cb EXCEPT !.cbHalfOpenInFlight = FALSE, !.cbFailures = n, !.cbState = "OPEN"]
         ELSE [cb EXCEPT !.cbHalfOpenInFlight = FALSE, !.cbFailures = n]

cbFailure(cb, tripworthy, t) ==
    IF ~tripworthy THEN [cb EXCEPT !.cbHalfOpenInFlight = FALSE]
    ELSE LET n == cb.cbFailures + 1 IN
         IF cb.cbState = "HALF_OPEN" \/ n >= CB_FAILURE_THRESHOLD
         THEN [cb EXCEPT !.cbHalfOpenInFlight = FALSE,
                         !.cbFailures = n,
                         !.cbState = "OPEN",
                         !.cbOpenedAt = t]
         ELSE [cb EXCEPT !.cbHalfOpenInFlight = FALSE, !.cbFailures = n]

\* the classification without the test for "quota exceeded"
TripworthyUnlessAuth(m) == ~Includes(m, "invalid or revoked")

\* callGemini's classification of the error it caught (gemini.ts:224-226)
Tripworthy(m) == ~Includes(m, "invalid or revoked") /\ ~Includes(m, "quota exceeded")

SetGeminiCB(cb) ==
    /\ cbState' = cb.cbState
    /\ cbFailures' = cb.cbFailures
    /\ cbOpenedAt' = cb.cbOpenedAt
    /\ cbHalfOpenInFlight' = cb.cbHalfOpenInFlight

---------------------------------------------------------------------------
(* Initial state: the module-level initialisers of android.ts:23-26,      *)
(* gemini.ts:54-57 and stats.ts:21-33; no request in progress.            *)

NoCtx == [mode |-> "none"]
NoOut == [kind |-> "none"]

Init ==
    /\ now = 0
    /\ circuitState = "CLOSED" /\ consecutiveFailures = 0
    /\ openedAt = 0 /\ halfOpenProbeInFlight = FALSE
    /\ cbState = "CLOSED" /\ cbFailures = 0
    /\ cbOpenedAt = 0 /\ cbHalfOpenInFlight = FALSE
    /\ ringBuffer = <<>>
    /\ totalRequests = 0 /\ totalLocal = 0 /\ totalCloud = 0 /\ totalErrors = 0
    /\ sumLatencyLocal = 0 /\ sumLatencyCloud = 0 /\ circuitTripCount = 0
    /\ pc = [r \in Slots |-> "idle"]
    /\ callStart = [r \in Slots |-> 0]
    /\ probe = [r \in Slots |-> FALSE]
    /\ ctx = [r \in Slots |-> NoCtx]
    /\ out = NoOut
    /\ androidFailsSince = 0 /\ geminiFailsSince = 0
    /\ androidFetches = 0 /\ geminiSends = 0
    /\ tcp = [buffer |-> <<>>, ended |-> FALSE, events |-> 0, running |-> 0,
              completions |-> 0, written |-> 0]

---------------------------------------------------------------------------
(* The clock.  withTimeout (gemini.ts:132-139) rejects a sendMessage that  *)
(* has run for CONFIG.gemini.timeout, so the clock does not pass that      *)
(* deadline while the call is pending.  fetchFromAndroid clears its abort  *)
(* timer once the response headers are in (android.ts:106) and then waits  *)
(* for the body without a deadline, so a local call may stay pending.      *)

Tick ==
    /\ now + TickMs <= MaxTicks * TickMs
    /\ \A r \in Slots : pc[r] = "await_cloud" => now - callStart[r] < GEMINI_TIMEOUT
    /\ now' = now + TickMs
    /\ UNCHANGED <<tcp, androidVars, geminiVars, statsVars, slotVars, histVars>>

\* the outcomes a pending fetchFromAndroid can have at time t
AndroidOutcomes(r, t) ==
    {m \in AndroidFailures : m = AndroidTimeoutMsg => t - callStart[r] >= ANDROID_TIMEOUT}
\* the outcomes a pending fetchFromGemini can have at time t
GeminiOutcomes(r, t) ==
    {m \in GeminiFailures : m = GeminiTimeoutMsg => t - callStart[r] >= GEMINI_TIMEOUT}

\* the failure kinds of the classification that do not count against a breaker
PermanentAuthOrQuota == {GeminiAuthMsg, GeminiQuotaMsg}

---------------------------------------------------------------------------
(* Callers of the two providers' entry points, as in the circuit breaker   *)
(* test (tryCall): callAndroidCactus (android.ts:156-177) and callGemini   *)
(* (gemini.ts:208-230), each split at its await.                           *)

\* callAndroidCactus up to the await of fetchFromAndroid
CallAndroid(r) ==
    /\ pc[r] = "idle"
    /\ LET a == circuitAllow(AndroidCB, now) IN
        /\ SetAndroidCB(a.cb)
        /\ IF a.ok
           THEN /\ androidFetches + geminiSends < MaxCalls
                /\ pc' = [pc EXCEPT ![r] = "await_local"]
                /\ callStart' = [callStart EXCEPT ![r] = now]
                /\ probe' = [probe EXCEPT ![r] = (a.cb.circuitState = "HALF_OPEN")]
                /\ androidFetches' = androidFetches + 1
                /\ out' = [kind |-> "started"]
           ELSE /\ out' = [kind |-> "throw", probe |-> FALSE,
                           msg |-> AndroidCircuitOpenMsg(
                                     Ceil(RESET_TIMEOUT_MS - (now - openedAt), 1000))]
                /\ UNCHANGED <<pc, callStart, probe, androidFetches>>
    /\ UNCHANGED <<tcp, now, geminiVars, ringVars, ctx, androidFailsSince, geminiFailsSince,
                   geminiSends>>

\* fetchFromAndroid returned: circuitOnSuccess(), return result
AndroidReturns(r) ==
    /\ pc[r] = "await_local"
    /\ SetAndroidCB(circuitOnSuccess(AndroidCB))
    /\ pc' = [pc EXCEPT ![r] = "idle"]
    /\ probe' = [probe EXCEPT ![r] = FALSE]
    /\ callStart' = [callStart EXCEPT ![r] = 0]
    /\ out' = [kind |-> "return", probe |-> probe[r]]
    /\ androidFailsSince' = 0
    /\ UNCHANGED <<tcp, now, geminiVars, ringVars, ctx, geminiFailsSince,
                   androidFetches, geminiSends>>

\* fetchFromAndroid threw m: circuitOnFailure(), rethrow
AndroidThrows(r) ==
    /\ pc[r] = "await_local"
    /\ \E m \in AndroidOutcomes(r, now) :
        /\ SetAndroidCB(circuitOnFailure(AndroidCB, now))
        /\ out' = [kind |-> "throw", msg |-> m, probe |-> probe[r]]
    /\ pc' = [pc EXCEPT ![r] = "idle"]
    /\ probe' = [probe EXCEPT ![r] = FALSE]
    /\ callStart' = [callStart EXCEPT ![r] = 0]
    /\ androidFailsSince' = androidFailsSince + 1
    /\ UNCHANGED <<tcp, now, geminiVars, ringVars, ctx, geminiFailsSince,
                   androidFetches, geminiSends>>

\* callGemini up to the await of fetchFromGemini
CallGemini(r) ==
    /\ pc[r] = "idle"
    /\ LET a == cbAllow(GeminiCB, now) IN
        /\ SetGeminiCB(a.cb)
        /\ IF a.ok
           THEN /\ androidFetches + geminiSends < MaxCalls
                /\ pc' = [pc EXCEPT ![r] = "await_cloud"]
                /\ callStart' = [callStart EXCEPT ![r] = now]
                /\ probe' = [probe EXCEPT ![r] = (a.cb.cbState = "HALF_OPEN")]
                /\ geminiSends' = geminiSends + 1
                /\ out' = [kind |-> "started"]
           ELSE /\ out' = [kind |-> "throw", probe |-> FALSE,
                           msg |-> GeminiCircuitOpenMsg(
                                     Ceil(CB_RESET_TIMEOUT_MS - (now - cbOpenedAt), 1000))]
                /\ UNCHANGED <<pc, callStart, probe, geminiSends>>
    /\ UNCHANGED <<tcp, now, androidVars, statsVars, ctx, androidFailsSince, geminiFailsSince,
                   androidFetches>>

\* fetchFromGemini returned: cbSuccess(), return result
GeminiReturns(r) ==
    /\ pc[r] = "await_cloud"
    /\ SetGeminiCB(cbSuccess(GeminiCB))
    /\ pc' = [pc EXCEPT ![r] = "idle"]
    /\ probe' = [probe EXCEPT ![r] = FALSE]
    /\ callStart' = [callStart EXCEPT ![r] = 0]
    /\ out' = [kind |-> "return", probe |-> probe[r]]
    /\ geminiFailsSince' = 0
    /\ UNCHANGED <<tcp, now, androidVars, statsVars, ctx, androidFailsSince,
                   androidFetches, geminiSends>>

\* fetchFromGemini threw m: cbFailure(tripworthy), rethrow
GeminiThrows(r) ==
    /\ pc[r] = "await_cloud"
    /\ \E m \in GeminiOutcomes(r, now) :
        /\ SetGeminiCB(cbFailure(GeminiCB, Tripworthy(m), now))
        /\ out' = [kind |-> "throw", msg |-> m, probe |-> probe[r]]
        /\ geminiFailsSince' = IF m \in PermanentAuthOrQuota THEN geminiFailsSince
                               ELSE geminiFailsSince + 1
    /\ pc' = [pc EXCEPT ![r] = "idle"]
    /\ probe' = [probe EXCEPT ![r] = FALSE]
    /\ callStart' = [callStart EXCEPT ![r] = 0]
    /\ UNCHANGED <<tcp, now, androidVars, statsVars, ctx, androidFailsSince,
                   androidFetches, geminiSends>>

NextCB ==
    \/ Tick
    \/ \E r \in Slots : CallAndroid(r)
    \/ \E r \in Slots : AndroidReturns(r)
    \/ \E r \in Slots : AndroidThrows(r)
    \/ \E r \in Slots : CallGemini(r)
    \/ \E r \in Slots : GeminiReturns(r)
    \/ \E r \in Slots : GeminiThrows(r)

SpecCB == Init /\ [][NextCB]_vars

(* The breakers with their exported reset functions, which a caller may    *)
(* run between any two steps, calls in flight or not.                      *)

\* resetGeminiCircuitBreaker
resetGeminiCircuitBreaker(cb) ==
    [cb EXCEPT !.cbState = "CLOSED", !.cbFailures = 0, !.cbOpenedAt = 0,
               !.cbHalfOpenInFlight = FALSE]

ResetCircuitBreaker ==
    /\ SetAndroidCB(resetCircuitBreaker(AndroidCB))
    /\ androidFailsSince' = 0
    /\ out' = [kind |-> "reset", breaker |-> "android"]
    /\ UNCHANGED <<tcp, now, geminiVars, ringVars, slotVars, geminiFailsSince,
                   androidFetches, geminiSends>>

ResetGeminiCircuitBreaker ==
    /\ SetGeminiCB(resetGeminiCircuitBreaker(GeminiCB))
    /\ geminiFailsSince' = 0
    /\ out' = [kind |-> "reset", breaker |-> "gemini"]
    /\ UNCHANGED <<tcp, now, androidVars, statsVars, slotVars, androidFailsSince,
                   androidFetches, geminiSends>>

NextCBReset ==
    \/ Tick
    \/ \E r \in Slots : CallAndroid(r)
    \/ \E r \in Slots : AndroidReturns(r)
    \/ \E r \in Slots : AndroidThrows(r)
    \/ \E r \in Slots : CallGemini(r)
    \/ \E r \in Slots : GeminiReturns(r)
    \/ \E r \in Slots : GeminiThrows(r)
    \/ ResetCircuitBreaker
    \/ ResetGeminiCircuitBreaker

SpecCBReset == Init /\ [][NextCBReset]_vars

---------------------------------------------------------------------------
(* Values.  An optional number is None or Some(v); confidences and         *)
(* thresholds are in thousandths (0.7 is 700); a string is represented by  *)
(* its length where only the length is read.                               *)

None == [has |-> FALSE, val |-> 0]
Some(v) == [has |-> TRUE, val |-> v]
NoBool == [has |-> FALSE, val |-> FALSE]
\* a ?? b
OrElse(a, b) == IF a.has THEN a.val ELSE b

DEFAULT_CONFIDENCE_THRESHOLD == 700
DefaultConfidence == 500
MaxLocalTokens == 1500

\* Number.prototype.toFixed(2) of a value in thousandths, as hundredths
ToFixed2(c) == (c + 5) \div 10

---------------------------------------------------------------------------
(* routing.ts *)

RECURSIVE SumOfLengths(_)
SumOfLengths(messages) ==
    IF messages = <<>> THEN 0
    ELSE Head(messages).content.len + SumOfLengths(Tail(messages))

\* messages.map(m => m.content).join(" ").length
JoinedLength(messages) ==
    IF messages = <<>> THEN 0 ELSE SumOfLengths(messages) + (Len(messages) - 1)

\* estimateTokens without the separators of the join
estimateTokensWithoutSeparators(messages) == Ceil(SumOfLengths(messages), 4)

\* estimateTokens of the first message alone
estimateTokensOfFirstMessage(messages) ==
    IF messages = <<>> THEN 0 ELSE Ceil(Head(messages).content.len, 4)

estimateTokens(messages) == Ceil(JoinedLength(messages), 4)

VALID_MODES == {"auto", "local", "cloud"}

\* resolveMode that also takes the upper-case spelling of a mode
resolveModeIgnoringCase(raw) ==
    IF raw.t = "string" /\ raw.v \in VALID_MODES THEN raw.v
    ELSE IF raw.t = "string" /\ raw.v = "LOCAL" THEN "local"
    ELSE "auto"

\* raw is [t |-> typeof raw, v |-> the string when it is one]
resolveMode(raw) ==
    IF raw.t = "string" /\ raw.v \in VALID_MODES THEN raw.v ELSE "auto"

Reason(tag, a, b) == [tag |-> tag, a |-> a, b |-> b]

\* determineTarget with < in place of <= in the test of the token count
determineTargetBelowThreshold(messages, mode) ==
    IF mode = "local" THEN "local"
    ELSE IF mode = "cloud" THEN "cloud"
    ELSE IF estimateTokens(messages) < MaxLocalTokens THEN "local" ELSE "cloud"

determineTarget(messages, mode) ==
    IF mode = "local" THEN "local"
    ELSE IF mode = "cloud" THEN "cloud"
    ELSE IF estimateTokens(messages) <= MaxLocalTokens THEN "local" ELSE "cloud"

\* evaluateConfidenceRouting with <= in place of < in the test of the confidence
evaluateConfidenceRoutingAtThreshold(localResult, confidenceThreshold) ==
    IF ~localResult.has
    THEN [target |-> "local", reason |-> Reason("initial_attempt", 0, 0), skipLocal |-> FALSE]
    ELSE IF localResult.cloud_handoff.has /\ localResult.cloud_handoff.val
    THEN [target |-> "cloud", reason |-> Reason("cloud_handoff_flag", 0, 0),
          skipLocal |-> FALSE]
    ELSE LET confidence == OrElse(localResult.confidence, DefaultConfidence) IN
         IF confidence <= confidenceThreshold
         THEN [target |-> "cloud",
               reason |-> Reason("low_confidence_below", ToFixed2(confidence),
                                 confidenceThreshold),
               skipLocal |-> FALSE]
         ELSE [target |-> "local",
               reason |-> Reason("high_confidence", ToFixed2(confidence), 0),
               skipLocal |-> FALSE]

\* evaluateConfidenceRouting with the test of the confidence before the test of the flag
evaluateConfidenceRoutingConfidenceFirst(localResult, confidenceThreshold) ==
    IF ~localResult.has
    THEN [target |-> "local", reason |-> Reason("initial_attempt", 0, 0), skipLocal |-> FALSE]
    ELSE LET confidence == OrElse(localResult.confidence, DefaultConfidence) IN
         IF confidence < confidenceThreshold
         THEN [target |-> "cloud",
               reason |-> Reason("low_confidence_below", ToFixed2(confidence),
                                 confidenceThreshold),
               skipLocal |-> FALSE]
         ELSE IF localResult.cloud_handoff.has /\ localResult.cloud_handoff.val
         THEN [target |-> "cloud", reason |-> Reason("cloud_handoff_flag", 0, 0),
               skipLocal |-> FALSE]
         ELSE [target |-> "local",
               reason |-> Reason("high_confidence", ToFixed2(confidence), 0),
               skipLocal |-> FALSE]

\* localResult is [has |-> FALSE] when the argument is absent, else
\* [has |-> TRUE, confidence |-> optional number, cloud_handoff |-> optional boolean]
evaluateConfidenceRouting(localResult, confidenceThreshold) ==
    IF ~localResult.has
    THEN [target |-> "local", reason |-> Reason("initial_attempt", 0, 0), skipLocal |-> FALSE]
    ELSE IF localResult.cloud_handoff.has /\ localResult.cloud_handoff.val
    THEN [target |-> "cloud", reason |-> Reason("cloud_handoff_flag", 0, 0),
          skipLocal |-> FALSE]
    ELSE LET confidence == OrElse(localResult.confidence, DefaultConfidence) IN
         IF confidence < confidenceThreshold
         THEN [target |-> "cloud",
               reason |-> Reason("low_confidence_below", ToFixed2(confidence),
                                 confidenceThreshold),
               skipLocal |-> FALSE]
         ELSE [target |-> "local",
               reason |-> Reason("high_confidence", ToFixed2(confidence), 0),
               skipLocal |-> FALSE]

\* determineTargetHybrid with >= in place of > in the test of the token count
determineTargetHybridAtThreshold(messages, mode, localResult) ==
    IF mode = "local"
    THEN [target |-> "local", reason |-> Reason("mode_override", 0, 0), skipLocal |-> FALSE]
    ELSE IF mode = "cloud"
    THEN [target |-> "cloud", reason |-> Reason("mode_override", 0, 0), skipLocal |-> FALSE]
    ELSE LET tokens == estimateTokens(messages) IN
         IF tokens >= MaxLocalTokens
         THEN [target |-> "cloud",
               reason |-> Reason("tokens_exceeds", tokens, MaxLocalTokens),
               skipLocal |-> TRUE]
         ELSE evaluateConfidenceRouting(localResult, DEFAULT_CONFIDENCE_THRESHOLD)

\* determineTargetHybrid without the override of mode cloud
determineTargetHybridNoCloudOverride(messages, mode, localResult) ==
    IF mode = "local"
    THEN [target |-> "local", reason |-> Reason("mode_override", 0, 0), skipLocal |-> FALSE]
    ELSE LET tokens == estimateTokens(messages) IN
         IF tokens > MaxLocalTokens
         THEN [target |-> "cloud",
               reason |-> Reason("tokens_exceeds", tokens, MaxLocalTokens),
               skipLocal |-> TRUE]
         ELSE evaluateConfidenceRouting(localResult, DEFAULT_CONFIDENCE_THRESHOLD)

determineTargetHybrid(messages, mode, localResult) ==
    IF mode = "local"
    THEN [target |-> "local", reason |-> Reason("mode_override", 0, 0), skipLocal |-> FALSE]
    ELSE IF mode = "cloud"
    THEN [target |-> "cloud", reason |-> Reason("mode_override", 0, 0), skipLocal |-> FALSE]
    ELSE LET tokens == estimateTokens(messages) IN
         IF tokens > MaxLocalTokens
         THEN [target |-> "cloud",
               reason |-> Reason("tokens_exceeds", tokens, MaxLocalTokens),
               skipLocal |-> TRUE]
         ELSE evaluateConfidenceRouting(localResult, DEFAULT_CONFIDENCE_THRESHOLD)

NoLocalResult == [has |-> FALSE]

---------------------------------------------------------------------------
(* stats.ts *)

StatsState == [ringBuffer      |-> ringBuffer,
               totalRequests   |-> totalRequests,
               totalLocal      |-> totalLocal,
               totalCloud      |-> totalCloud,
               totalErrors     |-> totalErrors,
               sumLatencyLocal |-> sumLatencyLocal,
               sumLatencyCloud |-> sumLatencyCloud]

\* recordRequest with >= in place of > in the test of the ring's length
\* recordRequest that counts a failed request in neither per-target counter
recordRequestSkippingTargetOfErrors(st, r) ==
    LET pushed == Append(st.ringBuffer, r)
        ok == r.status < 400
    IN
    [ringBuffer      |-> IF Len(pushed) > RING_SIZE THEN Tail(pushed) ELSE pushed,
     totalRequests   |-> st.totalRequests + 1,
     totalLocal      |-> IF ok /\ r.target = "local" THEN st.totalLocal + 1
                         ELSE st.totalLocal,
     totalCloud      |-> IF ok /\ r.target # "local" THEN st.totalCloud + 1
                         ELSE st.totalCloud,
     totalErrors     |-> IF r.status >= 400 THEN st.totalErrors + 1 ELSE st.totalErrors,
     sumLatencyLocal |-> IF r.target = "local" THEN st.sumLatencyLocal + r.latency_ms
                         ELSE st.sumLatencyLocal,
     sumLatencyCloud |-> IF r.target = "local" THEN st.sumLatencyCloud
                         ELSE st.sumLatencyCloud + r.latency_ms]

recordRequestShiftAtCapacity(st, r) ==
    LET pushed == Append(st.ringBuffer, r) IN
    [ringBuffer      |-> IF Len(pushed) >= RING_SIZE THEN Tail(pushed) ELSE pushed,
     totalRequests   |-> st.totalRequests + 1,
     totalLocal      |-> IF r.target = "local" THEN st.totalLocal + 1 ELSE st.totalLocal,
     totalCloud      |-> IF r.target = "local" THEN st.totalCloud ELSE st.totalCloud + 1,
     totalErrors     |-> IF r.status >= 400 THEN st.totalErrors + 1 ELSE st.totalErrors,
     sumLatencyLocal |-> IF r.target = "local" THEN st.sumLatencyLocal + r.latency_ms
                         ELSE st.sumLatencyLocal,
     sumLatencyCloud |-> IF r.target = "local" THEN st.sumLatencyCloud
                         ELSE st.sumLatencyCloud + r.latency_ms]

recordRequest(st, r) ==
    LET pushed == Append(st.ringBuffer, r) IN
    [ringBuffer      |-> IF Len(pushed) > RING_SIZE THEN Tail(pushed) ELSE pushed,
     totalRequests   |-> st.totalRequests + 1,
     totalLocal      |-> IF r.target = "local" THEN st.totalLocal + 1 ELSE st.totalLocal,
     totalCloud      |-> IF r.target = "local" THEN st.totalCloud ELSE st.totalCloud + 1,
     totalErrors     |-> IF r.status >= 400 THEN st.totalErrors + 1 ELSE st.totalErrors,
     sumLatencyLocal |-> IF r.target = "local" THEN st.sumLatencyLocal + r.latency_ms
                         ELSE st.sumLatencyLocal,
     sumLatencyCloud |-> IF r.target = "local" THEN st.sumLatencyCloud
                         ELSE st.sumLatencyCloud + r.latency_ms]

\* [...a].reverse()
Reverse(a) == [i \in 1 .. Len(a) |-> a[Len(a) + 1 - i]]
\* Math.round(a / b) for a >= 0 and b > 0
Round(a, b) == (2 * a + b) \div (2 * b)

\* getStats() without uptime_ms
getStats(st, trips) ==
    [total_requests       |-> st.totalRequests,
     total_local          |-> st.totalLocal,
     total_cloud          |-> st.totalCloud,
     total_errors         |-> st.totalErrors,
     avg_latency_local_ms |-> IF st.totalLocal > 0
                              THEN Round(st.sumLatencyLocal, st.totalLocal) ELSE 0,
     avg_latency_cloud_ms |-> IF st.totalCloud > 0
                              THEN Round(st.sumLatencyCloud, st.totalCloud) ELSE 0,
     circuit_trip_count   |-> trips,
     recent               |-> Reverse(st.ringBuffer)]

SetStats(st) ==
    /\ ringBuffer' = st.ringBuffer
    /\ totalRequests' = st.totalRequests
    /\ totalLocal' = st.totalLocal
    /\ totalCloud' = st.totalCloud
    /\ totalErrors' = st.totalErrors
    /\ sumLatencyLocal' = st.sumLatencyLocal
    /\ sumLatencyCloud' = st.sumLatencyCloud

---------------------------------------------------------------------------
(* router.ts: POST /v1/chat/completions.  A request body is                *)
(*   [stream, messages, mode, confidence_threshold]                        *)
(* where messages is [t |-> "undefined"], [t |-> "string"] (a value that   *)
(* is no array) or [t |-> "array", items |-> a sequence of messages], a    *)
(* message is [role, content] with each field [str |-> whether it is a     *)
(* string, len |-> its length], and mode is metadata.mode as resolveMode   *)
(* reads it.                                                               *)

RouterDefaultThreshold == 700

Str(n) == [str |-> TRUE, len |-> n]
NotAString == [str |-> FALSE, len |-> 0]
Message(n) == [role |-> Str(4), content |-> Str(n)]

ArrayOf(items) == [t |-> "array", items |-> items]
Body(stream, messages, mode, confidence_threshold) ==
    [stream |-> stream, messages |-> messages, mode |-> mode,
     confidence_threshold |-> confidence_threshold]

ModeAbsent == [t |-> "undefined", v |-> ""]
ModeOf(v) == [t |-> "string", v |-> v]

\* values of body.messages that the handler refuses
InvalidMessagesInputs ==
    {[t |-> "undefined", items |-> <<>>],
     [t |-> "string", items |-> <<>>],
     ArrayOf(<<>>),
     ArrayOf(<<[role |-> NotAString, content |-> Str(2)]>>),
     ArrayOf(<<Message(2), [role |-> Str(4), content |-> NotAString]>>)}

\* request bodies that pass the checks: 2, 6000 and 6001 characters are 1, 1500 and
\* 1501 estimated tokens, and two messages of 3000 characters join to 6001
ValidBodies ==
    {Body(FALSE, ArrayOf(<<Message(2)>>), ModeAbsent, None),
     Body(FALSE, ArrayOf(<<Message(6000)>>), ModeOf("LOCAL"), None),
     Body(FALSE, ArrayOf(<<Message(6001)>>), ModeOf("auto"), None),
     Body(FALSE, ArrayOf(<<Message(3000), Message(3000)>>), ModeOf("auto"), None),
     Body(FALSE, ArrayOf(<<Message(6001)>>), ModeOf("local"), None),
     Body(FALSE, ArrayOf(<<Message(2)>>), ModeOf("cloud"), None),
     Body(FALSE, ArrayOf(<<Message(2)>>), ModeOf("auto"), Some(500))}

Bodies ==
    ValidBodies
    \cup {Body(FALSE, m, mode, None) :
             m \in InvalidMessagesInputs, mode \in {ModeAbsent, ModeOf("cloud")}}
    \cup {Body(TRUE, m, ModeAbsent, None) :
             m \in {ArrayOf(<<Message(2)>>), [t |-> "undefined", items |-> <<>>]}}

\* what fetchFromAndroid can return (android.ts:127-134)
LocalResult(confidence, cloud_handoff) ==
    [has |-> TRUE, content |-> Str(12), confidence |-> confidence,
     cloud_handoff |-> cloud_handoff]
AndroidResults ==
    {LocalResult(None, NoBool),
     LocalResult(Some(450), [has |-> TRUE, val |-> FALSE]),
     LocalResult(Some(699), NoBool),
     LocalResult(Some(700), NoBool),
     LocalResult(Some(950), [has |-> TRUE, val |-> TRUE])}

\* what fetchFromGemini can return (gemini.ts:190-194)
GeminiResults == {LocalResult(None, NoBool)}

\* the first check without the test of the length
MessagesRejectedUnlessEmpty(body) ==
    \/ body.messages.t = "undefined"
    \/ body.messages.t # "array"

\* the checks of body.messages (router.ts: !body.messages || !Array.isArray(...) ||
\* length === 0, then the search for a message without string role and content)
MessagesRejected(body) ==
    \/ body.messages.t = "undefined"
    \/ body.messages.t # "array"
    \/ Len(body.messages.items) = 0
InvalidMessage(body) ==
    \E i \in 1 .. Len(body.messages.items) :
        ~body.messages.items[i].role.str \/ ~body.messages.items[i].content.str

\* the catch block's choice of status and type without the test of "circuit"
ErrorStatusWithoutCircuit(message) ==
    IF Includes(message, "timeout") THEN [status |-> 504, type |-> "lfo_timeout"]
    ELSE IF Includes(message, "rate limit")
    THEN [status |-> 429, type |-> "rate_limit_exceeded"]
    ELSE IF Includes(message, "quota") THEN [status |-> 403, type |-> "quota_exceeded"]
    ELSE IF Includes(message, "Cannot reach")
    THEN [status |-> 503, type |-> "service_unavailable"]
    ELSE IF Includes(message, "invalid or revoked")
    THEN [status |-> 401, type |-> "authentication_error"]
    ELSE [status |-> 502, type |-> "lfo_provider_error"]

\* the catch block's choice of status and type with "circuit" answered as a timeout
ErrorStatusCircuitAsTimeout(message) ==
    IF Includes(message, "timeout") \/ Includes(message, "circuit")
    THEN [status |-> 504, type |-> "lfo_timeout"]
    ELSE IF Includes(message, "rate limit")
    THEN [status |-> 429, type |-> "rate_limit_exceeded"]
    ELSE IF Includes(message, "quota") THEN [status |-> 403, type |-> "quota_exceeded"]
    ELSE IF Includes(message, "Cannot reach")
    THEN [status |-> 503, type |-> "service_unavailable"]
    ELSE IF Includes(message, "invalid or revoked")
    THEN [status |-> 401, type |-> "authentication_error"]
    ELSE [status |-> 502, type |-> "lfo_provider_error"]

\* the catch block's message: error instanceof Error ? error.message : "LFO routing error"
CaughtMessage(error) == IF error = NonErrorThrown THEN LfoRoutingErrorMsg ELSE error

\* the catch block's choice of status and type
ErrorStatus(message) ==
    IF Includes(message, "timeout") THEN [status |-> 504, type |-> "lfo_timeout"]
    ELSE IF Includes(message, "rate limit")
    THEN [status |-> 429, type |-> "rate_limit_exceeded"]
    ELSE IF Includes(message, "quota") THEN [status |-> 403, type |-> "quota_exceeded"]
    ELSE IF Includes(message, "Cannot reach") \/ Includes(message, "circuit")
    THEN [status |-> 503, type |-> "service_unavailable"]
    ELSE IF Includes(message, "invalid or revoked")
    THEN [status |-> 401, type |-> "authentication_error"]
    ELSE [status |-> 502, type |-> "lfo_provider_error"]

errorTarget(message) ==
    IF Includes(message, "Android") \/ Includes(message, "circuit breaker is open")
    THEN "local"
    ELSE IF Includes(message, "Gemini") THEN "cloud" ELSE "local"

NoError == Msg("null")

\* the response written for a request refused before routing
Refusal(r, status, type) ==
    [kind |-> "response", slot |-> r, status |-> status, type |-> type]

\* a refusal that also records the request
RefuseAndRecord(r, status, type) ==
    /\ out' = Refusal(r, status, type)
    /\ SetStats(recordRequest(StatsState,
            [ts |-> now, mode |-> "auto", target |-> "local", prompt_tokens |-> 0,
             completion_tokens |-> 0, latency_ms |-> 0, status |-> status,
             error |-> NoError]))
    /\ UNCHANGED <<androidVars, geminiVars, circuitTripCount, slotVars,
                   androidFetches, geminiSends>>

\* res.status(status).json(error); return
Refuse(r, status, type) ==
    /\ out' = Refusal(r, status, type)
    /\ UNCHANGED <<androidVars, geminiVars, statsVars, slotVars, androidFetches, geminiSends>>

\* the slot of a request that has been answered
\* the end of the handler that leaves the request waiting for its backend call
DoneStillWaiting(r) ==
    /\ pc' = pc
    /\ ctx' = ctx
    /\ callStart' = callStart
    /\ probe' = [probe EXCEPT ![r] = FALSE]

Done(r) ==
    /\ pc' = [pc EXCEPT ![r] = "idle"]
    /\ ctx' = [ctx EXCEPT ![r] = NoCtx]
    /\ callStart' = [callStart EXCEPT ![r] = 0]
    /\ probe' = [probe EXCEPT ![r] = FALSE]

\* Succeed that reports the final target as the local attempt
SucceedReportingTargetAsAttempt(r, c, providerMessage, finalTarget) ==
    LET latency == now - c.startTime
        completionTokens == Ceil(providerMessage.content.len, 4)
    IN  /\ out' = [kind |-> "response", slot |-> r, status |-> 200,
                   model |-> IF finalTarget = "local" THEN "lfo-local-functiongemma"
                             ELSE "lfo-gemini",
                   usage |-> [prompt_tokens |-> c.promptTokens,
                              completion_tokens |-> completionTokens,
                              total_tokens |-> c.promptTokens + completionTokens],
                   lfo_metadata |-> [confidence |-> providerMessage.confidence,
                                     routing_reason |-> c.routingReason,
                                     local_attempt |-> finalTarget = "local"],
                   req |-> c]
        /\ SetStats(recordRequest(StatsState,
                [ts |-> now, mode |-> c.mode, target |-> finalTarget,
                 prompt_tokens |-> c.promptTokens,
                 completion_tokens |-> completionTokens,
                 latency_ms |-> latency, status |-> 200, error |-> NoError]))
        /\ Done(r)

\* Succeed with one record for each backend call of the request
SucceedRecordingEachAttempt(r, c, providerMessage, finalTarget) ==
    LET latency == now - c.startTime
        completionTokens == Ceil(providerMessage.content.len, 4)
        record(target) == [ts |-> now, mode |-> c.mode, target |-> target,
                           prompt_tokens |-> c.promptTokens,
                           completion_tokens |-> completionTokens,
                           latency_ms |-> latency, status |-> 200, error |-> NoError]
    IN  /\ out' = [kind |-> "response", slot |-> r, status |-> 200,
                   model |-> IF finalTarget = "local" THEN "lfo-local-functiongemma"
                             ELSE "lfo-gemini",
                   usage |-> [prompt_tokens |-> c.promptTokens,
                              completion_tokens |-> completionTokens,
                              total_tokens |-> c.promptTokens + completionTokens],
                   lfo_metadata |-> [confidence |-> providerMessage.confidence,
                                     routing_reason |-> c.routingReason,
                                     local_attempt |-> c.localAttempted],
                   req |-> c]
        /\ SetStats(IF c.localCalls = 1 /\ c.cloudCalls = 1
                    THEN recordRequest(recordRequest(StatsState, record("local")),
                                       record("cloud"))
                    ELSE recordRequest(StatsState, record(finalTarget)))
        /\ Done(r)

\* the end of the try block: res.json(response), recordRequest(...)
Succeed(r, c, providerMessage, finalTarget) ==
    LET latency == now - c.startTime
        completionTokens == Ceil(providerMessage.content.len, 4)
    IN  /\ out' = [kind |-> "response", slot |-> r, status |-> 200,
                   model |-> IF finalTarget = "local" THEN "lfo-local-functiongemma"
                             ELSE "lfo-gemini",
                   usage |-> [prompt_tokens |-> c.promptTokens,
                              completion_tokens |-> completionTokens,
                              total_tokens |-> c.promptTokens + completionTokens],
                   lfo_metadata |-> [confidence |-> providerMessage.confidence,
                                     routing_reason |-> c.routingReason,
                                     local_attempt |-> c.localAttempted],
                   req |-> c]
        /\ SetStats(recordRequest(StatsState,
                [ts |-> now, mode |-> c.mode, target |-> finalTarget,
                 prompt_tokens |-> c.promptTokens,
                 completion_tokens |-> completionTokens,
                 latency_ms |-> latency, status |-> 200, error |-> NoError]))
        /\ Done(r)

\* the catch block: res.status(status).json(errorResponse), recordRequest(...)
Fail(r, c, error) ==
    LET latency == now - c.startTime
        message == CaughtMessage(error)
        st == ErrorStatus(message)
    IN  /\ out' = [kind |-> "response", slot |-> r, status |-> st.status,
                   type |-> st.type, message |-> message,
                   code |-> errorTarget(message), req |-> c]
        /\ SetStats(recordRequest(StatsState,
                [ts |-> now, mode |-> c.mode, target |-> errorTarget(message),
                 prompt_tokens |-> c.promptTokens, completion_tokens |-> 0,
                 latency_ms |-> latency, status |-> st.status, error |-> message]))
        /\ Done(r)

\* providers.gemini(...) = callGemini up to its await, and what follows a rejection
GeminiStep(r, c0) ==
    LET a == cbAllow(GeminiCB, now)
        c == [c0 EXCEPT !.cloudCalls = @ + 1]
    IN
    /\ SetGeminiCB(a.cb)
    /\ IF a.ok
       THEN /\ pc' = [pc EXCEPT ![r] = "await_cloud"]
            /\ ctx' = [ctx EXCEPT ![r] = c]
            /\ callStart' = [callStart EXCEPT ![r] = now]
            /\ probe' = [probe EXCEPT ![r] = (a.cb.cbState = "HALF_OPEN")]
            /\ geminiSends' = geminiSends + 1
            /\ out' = [kind |-> "started", slot |-> r]
            /\ UNCHANGED ringVars
       ELSE /\ Fail(r, c, GeminiCircuitOpenMsg(
                            Ceil(CB_RESET_TIMEOUT_MS - (now - cbOpenedAt), 1000)))
            /\ UNCHANGED geminiSends

\* providers.android(...) = callAndroidCactus up to its await, and what follows a
\* rejection
AndroidStep(r, c0) ==
    LET a == circuitAllow(AndroidCB, now)
        c == [c0 EXCEPT !.localCalls = @ + 1]
    IN
    /\ SetAndroidCB(a.cb)
    /\ IF a.ok
       THEN /\ pc' = [pc EXCEPT ![r] = "await_local"]
            /\ ctx' = [ctx EXCEPT ![r] = c]
            /\ callStart' = [callStart EXCEPT ![r] = now]
            /\ probe' = [probe EXCEPT ![r] = (a.cb.circuitState = "HALF_OPEN")]
            /\ androidFetches' = androidFetches + 1
            /\ out' = [kind |-> "started", slot |-> r]
            /\ UNCHANGED ringVars
       ELSE /\ Fail(r, c, AndroidCircuitOpenMsg(
                            Ceil(RESET_TIMEOUT_MS - (now - openedAt), 1000)))
            /\ UNCHANGED androidFetches

\* the handler from the arrival of the request to its first await or its response
Receive(r, body) ==
    /\ pc[r] = "idle"
    /\ IF body.stream
       THEN Refuse(r, 501, "not_implemented")
       ELSE IF MessagesRejected(body) \/ InvalidMessage(body)
       THEN Refuse(r, 400, "invalid_request_error")
       ELSE LET messages == body.messages.items
                mode == resolveMode(body.mode)
                initialRouting == determineTargetHybrid(messages, mode, NoLocalResult)
                c == [mode |-> mode,
                      confidenceThreshold |->
                          OrElse(body.confidence_threshold, RouterDefaultThreshold),
                      promptTokens |-> estimateTokens(messages),
                      startTime |-> now,
                      localAttempted |-> FALSE,
                      routingReason |-> initialRouting.reason,
                      rawMode |-> body.mode,
                      rawThreshold |-> body.confidence_threshold,
                      localCalls |-> 0, cloudCalls |-> 0,
                      localResult |-> NoLocalResult]
            IN  IF initialRouting.skipLocal \/ initialRouting.target = "cloud"
                THEN /\ GeminiStep(r, c)
                     /\ UNCHANGED <<androidVars, circuitTripCount, androidFetches>>
                ELSE /\ AndroidStep(r, [c EXCEPT !.localAttempted = TRUE])
                     /\ UNCHANGED <<geminiVars, geminiSends>>
    /\ UNCHANGED <<tcp, now, androidFailsSince, geminiFailsSince>>

\* LocalReturns without the assignment of the escalation reason to routingReason
LocalReturnsKeepingInitialReason(r, localResult) ==
    /\ pc[r] = "await_local"
    /\ SetAndroidCB(circuitOnSuccess(AndroidCB))
    /\ androidFailsSince' = 0
    /\ LET confidenceEval ==
               evaluateConfidenceRouting(localResult, ctx[r].confidenceThreshold)
           c == [ctx[r] EXCEPT !.localResult = localResult]
       IN  IF confidenceEval.target = "cloud"
           THEN GeminiStep(r, c)
           ELSE /\ Succeed(r, c, localResult, "local")
                /\ UNCHANGED <<geminiVars, geminiSends>>
    /\ UNCHANGED <<tcp, now, geminiFailsSince, androidFetches>>

\* fetchFromAndroid returned localResult: circuitOnSuccess(), then the handler
\* evaluates the confidence and either answers or calls providers.gemini
LocalReturns(r, localResult) ==
    /\ pc[r] = "await_local"
    /\ SetAndroidCB(circuitOnSuccess(AndroidCB))
    /\ androidFailsSince' = 0
    /\ LET confidenceEval ==
               evaluateConfidenceRouting(localResult, ctx[r].confidenceThreshold)
           c == [ctx[r] EXCEPT !.routingReason = confidenceEval.reason,
                               !.localResult = localResult]
       IN  IF confidenceEval.target = "cloud"
           THEN GeminiStep(r, c)
           ELSE /\ Succeed(r, c, localResult, "local")
                /\ UNCHANGED <<geminiVars, geminiSends>>
    /\ UNCHANGED <<tcp, now, geminiFailsSince, androidFetches>>

\* LocalThrows with a call of providers.gemini in place of the catch block
LocalThrowsFallingBack(r, message) ==
    /\ pc[r] = "await_local"
    /\ SetAndroidCB(circuitOnFailure(AndroidCB, now))
    /\ androidFailsSince' = androidFailsSince + 1
    /\ GeminiStep(r, ctx[r])
    /\ UNCHANGED <<tcp, now, geminiFailsSince, androidFetches>>

\* fetchFromAndroid threw message: circuitOnFailure(), then the catch block
LocalThrows(r, message) ==
    /\ pc[r] = "await_local"
    /\ SetAndroidCB(circuitOnFailure(AndroidCB, now))
    /\ androidFailsSince' = androidFailsSince + 1
    /\ Fail(r, ctx[r], message)
    /\ UNCHANGED <<tcp, now, geminiVars, geminiFailsSince, androidFetches, geminiSends>>

\* fetchFromGemini returned result: cbSuccess(), then the response
CloudReturns(r, result) ==
    /\ pc[r] = "await_cloud"
    /\ SetGeminiCB(cbSuccess(GeminiCB))
    /\ geminiFailsSince' = 0
    /\ Succeed(r, ctx[r], result, "cloud")
    /\ UNCHANGED <<tcp, now, androidVars, circuitTripCount, androidFailsSince,
                   androidFetches, geminiSends>>

\* CloudThrows with one more call of providers.gemini before the catch block
CloudThrowsRetrying(r, message) ==
    /\ pc[r] = "await_cloud"
    /\ geminiFailsSince' = IF message \in PermanentAuthOrQuota THEN geminiFailsSince
                           ELSE geminiFailsSince + 1
    /\ IF ctx[r].cloudCalls < 2
       THEN /\ pc' = pc
            /\ ctx' = [ctx EXCEPT ![r].cloudCalls = @ + 1]
            /\ callStart' = [callStart EXCEPT ![r] = now]
            /\ out' = [kind |-> "started", slot |-> r]
            /\ UNCHANGED <<geminiVars, probe, ringVars>>
       ELSE /\ SetGeminiCB(cbFailure(GeminiCB, Tripworthy(message), now))
            /\ Fail(r, ctx[r], message)
    /\ UNCHANGED <<tcp, now, androidVars, circuitTripCount, androidFailsSince,
                   androidFetches, geminiSends>>

\* fetchFromGemini threw message: cbFailure(tripworthy), then the catch block
CloudThrows(r, message) ==
    /\ pc[r] = "await_cloud"
    /\ SetGeminiCB(cbFailure(GeminiCB, Tripworthy(message), now))
    /\ geminiFailsSince' = IF message \in PermanentAuthOrQuota THEN geminiFailsSince
                           ELSE geminiFailsSince + 1
    /\ Fail(r, ctx[r], message)
    /\ UNCHANGED <<tcp, now, androidVars, circuitTripCount, androidFailsSince,
                   androidFetches, geminiSends>>

\* requests accepted so far: those recorded and those waiting for a backend
Accepted == totalRequests + Cardinality({r \in Slots : pc[r] # "idle"})

Next ==
    \/ Tick
    \/ \E r \in Slots, body \in Bodies : Accepted < MaxRequests /\ Receive(r, body)
    \/ \E r \in Slots, localResult \in AndroidResults : LocalReturns(r, localResult)
    \/ \E r \in Slots : \E message \in AndroidOutcomes(r, now) : LocalThrows(r, message)
    \/ \E r \in Slots, result \in GeminiResults : CloudReturns(r, result)
    \/ \E r \in Slots : \E message \in GeminiOutcomes(r, now) : CloudThrows(r, message)

Spec == Init /\ [][Next]_vars

---------------------------------------------------------------------------
(* The handler under a run of failing backends: enough requests within one *)
(* reset period for a breaker to open, so that a request meets an open     *)
(* breaker.  The requests are short ones in the three modes; the bridge    *)
(* answers with high confidence, fails or times out, Gemini answers or     *)
(* fails.                                                                  *)

MaxLoadRequests == 4    \* requests accepted in one behaviour of SpecLoad
MaxLoadTicks == 1       \* the clock of SpecLoad stops at MaxLoadTicks * TickMs

LoadBodies ==
    {Body(FALSE, ArrayOf(<<Message(2)>>), ModeAbsent, None),
     Body(FALSE, ArrayOf(<<Message(2)>>), ModeOf("local"), None),
     Body(FALSE, ArrayOf(<<Message(2)>>), ModeOf("cloud"), None)}
LoadAndroidResults == {LocalResult(Some(950), NoBool)}
LoadAndroidFailures == {AndroidUnreachableMsg, AndroidTimeoutMsg, AndroidRethrownMsg}
LoadGeminiFailures == {GeminiRateLimitMsg, GeminiAuthMsg, GeminiRethrownMsg}

NextLoad ==
    \/ (now < MaxLoadTicks * TickMs /\ Tick)
    \/ \E r \in Slots, body \in LoadBodies :
            Accepted < MaxLoadRequests /\ Receive(r, body)
    \/ \E r \in Slots, localResult \in LoadAndroidResults : LocalReturns(r, localResult)
    \/ \E r \in Slots : \E message \in LoadAndroidFailures \cap AndroidOutcomes(r, now) :
            LocalThrows(r, message)
    \/ \E r \in Slots, result \in GeminiResults : CloudReturns(r, result)
    \/ \E r \in Slots, message \in LoadGeminiFailures : CloudThrows(r, message)

SpecLoad == Init /\ [][NextLoad]_vars

---------------------------------------------------------------------------
(* stats.ts on its own: a caller records requests and reads the statistics.*)
(* out keeps the records passed so far (all) and the last result of        *)
(* getStats (snapshot), which a later recordRequest makes stale.           *)

MaxRecords == 52        \* calls of recordRequest in one behaviour of SpecStats
MaxOddRecords == 1      \* of which are not the record of a local success

\* the k-th record passed to recordRequest; its timestamp is the ordinal of the call
StatsRecord(k, target, status, latency_ms, error) ==
    [ts |-> k, mode |-> "auto", target |-> target, prompt_tokens |-> 1,
     completion_tokens |-> IF status = 200 THEN 3 ELSE 0, latency_ms |-> latency_ms,
     status |-> status, error |-> error]
UsualRecord(k) == StatsRecord(k, "local", 200, 100, NoError)
OddRecords(k) == {StatsRecord(k, "cloud", 200, 201, NoError),
                  StatsRecord(k, "local", 503, 0, AndroidUnreachableMsg)}

NoSnapshot == [has |-> FALSE]
RecordsSoFar == IF out.kind = "stats" THEN out.all ELSE <<>>
OddSoFar == Cardinality({i \in 1 .. Len(RecordsSoFar) :
                            RecordsSoFar[i] # UsualRecord(RecordsSoFar[i].ts)})

RecordRequestCall(r) ==
    /\ SetStats(recordRequest(StatsState, r))
    /\ out' = [kind |-> "stats", all |-> Append(RecordsSoFar, r), snapshot |-> NoSnapshot]
    /\ UNCHANGED <<tcp, now, androidVars, geminiVars, circuitTripCount, slotVars,
                   androidFailsSince, geminiFailsSince, androidFetches, geminiSends>>

GetStatsCall ==
    /\ out' = [kind |-> "stats", all |-> RecordsSoFar,
               snapshot |-> [has |-> TRUE, stats |-> getStats(StatsState, circuitTripCount)]]
    /\ UNCHANGED <<tcp, now, androidVars, geminiVars, statsVars, slotVars,
                   androidFailsSince, geminiFailsSince, androidFetches, geminiSends>>

NextStats ==
    \/ \E r \in {UsualRecord(totalRequests + 1)}
                \cup (IF OddSoFar < MaxOddRecords THEN OddRecords(totalRequests + 1)
                      ELSE {}) :
            totalRequests < MaxRecords /\ RecordRequestCall(r)
    \/ GetStatsCall

SpecStats == Init /\ [][NextStats]_vars

---------------------------------------------------------------------------
(* The request handler with the assumption that every backend call ends:   *)
(* the promise of a pending call is settled, fulfilled or rejected (its    *)
(* timeout included), whatever the other requests do.                      *)

FairAndroidResults == {LocalResult(Some(950), NoBool), LocalResult(Some(100), NoBool)}

\* the continuation of the handler of r after its pending await
Resolves(r) ==
    \/ \E localResult \in FairAndroidResults : LocalReturns(r, localResult)
    \/ \E message \in LoadAndroidFailures \cap AndroidOutcomes(r, now) :
            LocalThrows(r, message)
    \/ \E result \in GeminiResults : CloudReturns(r, result)
    \/ \E message \in LoadGeminiFailures : CloudThrows(r, message)

NextFair ==
    \/ (now < MaxLoadTicks * TickMs /\ Tick)
    \/ \E r \in Slots, body \in LoadBodies : Accepted < MaxRequests /\ Receive(r, body)
    \/ \E r \in Slots, localResult \in FairAndroidResults : LocalReturns(r, localResult)
    \/ \E r \in Slots : \E message \in LoadAndroidFailures \cap AndroidOutcomes(r, now) :
            LocalThrows(r, message)
    \/ \E r \in Slots, result \in GeminiResults : CloudReturns(r, result)
    \/ \E r \in Slots, message \in LoadGeminiFailures : CloudThrows(r, message)

SpecFair == Init /\ [][NextFair]_vars /\ \A r \in Slots : WF_vars(Resolves(r))

---------------------------------------------------------------------------
(* Recovery of the breakers.  Callers keep arriving: a call is never       *)
(* refused for want of a caller, and the two history counters stop at      *)
(* MaxCalls.  The backends fail only in a first period: while fewer than   *)
(* MaxCalls calls were started and early enough for the reset timeout to   *)
(* elapse before the clock of the model stops at LiveTicks ticks; time     *)
(* that passes after that changes no test of the breakers.                 *)

LiveTicks == 3          \* clock ticks of the recovery specification

StartedCalls == androidFetches + geminiSends
BackendMayFail(resetTimeout) ==
    /\ StartedCalls < MaxCalls
    /\ now + resetTimeout <= LiveTicks * TickMs

LiveTick ==
    /\ now + TickMs <= LiveTicks * TickMs
    /\ \A r \in Slots : pc[r] = "await_cloud" => now - callStart[r] < GEMINI_TIMEOUT
    /\ now' = now + TickMs
    /\ UNCHANGED <<tcp, androidVars, geminiVars, statsVars, slotVars, histVars>>

\* callAndroidCactus up to the await of fetchFromAndroid
LiveCallAndroid(r) ==
    /\ pc[r] = "idle"
    /\ LET a == circuitAllow(AndroidCB, now) IN
        /\ SetAndroidCB(a.cb)
        /\ IF a.ok
           THEN /\ pc' = [pc EXCEPT ![r] = "await_local"]
                /\ callStart' = [callStart EXCEPT ![r] = now]
                /\ probe' = [probe EXCEPT ![r] = (a.cb.circuitState = "HALF_OPEN")]
                /\ androidFetches' = IF StartedCalls < MaxCalls THEN androidFetches + 1
                                     ELSE androidFetches
                /\ out' = [kind |-> "started"]
           ELSE /\ out' = [kind |-> "throw", probe |-> FALSE,
                           msg |-> AndroidCircuitOpenMsg(
                                     Ceil(RESET_TIMEOUT_MS - (now - openedAt), 1000))]
                /\ UNCHANGED <<pc, callStart, probe, androidFetches>>
    /\ UNCHANGED <<tcp, now, geminiVars, ringVars, ctx, androidFailsSince, geminiFailsSince,
                   geminiSends>>

\* callGemini up to the await of fetchFromGemini
LiveCallGemini(r) ==
    /\ pc[r] = "idle"
    /\ LET a == cbAllow(GeminiCB, now) IN
        /\ SetGeminiCB(a.cb)
        /\ IF a.ok
           THEN /\ pc' = [pc EXCEPT ![r] = "await_cloud"]
                /\ callStart' = [callStart EXCEPT ![r] = now]
                /\ probe' = [probe EXCEPT ![r] = (a.cb.cbState = "HALF_OPEN")]
                /\ geminiSends' = IF StartedCalls < MaxCalls THEN geminiSends + 1
                                  ELSE geminiSends
                /\ out' = [kind |-> "started"]
           ELSE /\ out' = [kind |-> "throw", probe |-> FALSE,
                           msg |-> GeminiCircuitOpenMsg(
                                     Ceil(CB_RESET_TIMEOUT_MS - (now - cbOpenedAt), 1000))]
                /\ UNCHANGED <<pc, callStart, probe, geminiSends>>
    /\ UNCHANGED <<tcp, now, androidVars, statsVars, ctx, androidFailsSince, geminiFailsSince,
                   androidFetches>>

NextLive ==
    \/ LiveTick
    \/ \E r \in Slots : LiveCallAndroid(r)
    \/ \E r \in Slots : AndroidReturns(r)
    \/ \E r \in Slots : BackendMayFail(RESET_TIMEOUT_MS) /\ AndroidThrows(r)
    \/ \E r \in Slots : LiveCallGemini(r)
    \/ \E r \in Slots : GeminiReturns(r)
    \/ \E r \in Slots : BackendMayFail(CB_RESET_TIMEOUT_MS) /\ GeminiThrows(r)

\* time advances, every admitted call resolves, and callers keep arriving at each
\* provider
SpecLive ==
    /\ Init /\ [][NextLive]_vars
    /\ WF_vars(LiveTick)
    /\ \A r \in Slots : WF_vars(AndroidReturns(r)) /\ WF_vars(GeminiReturns(r))
    /\ SF_vars(\E r \in Slots : LiveCallAndroid(r))
    /\ SF_vars(\E r \in Slots : LiveCallGemini(r))

---------------------------------------------------------------------------
(* lfo-mobile src/server.ts: startTCPServer, for one connection.  The      *)
(* client's bytes arrive in data events; a chunk is a sequence of pieces,  *)
(* "nl" the newline and "a", "b" the two halves of the text of a request,  *)
(* so that a line is a request that JSON.parse and the checks accept when   *)
(* it is <<"a", "b">>.  The promise of a refused line is rejected at once, *)
(* and its catch callback runs before the next event; the promise of an    *)
(* accepted line settles when runCompletion is done.  No data event is     *)
(* delivered once socket.end() was called.                                 *)

MaxDataEvents == 3      \* data events of the connection
MaxChunkLen == 3        \* pieces in one data event

Pieces == {"a", "b", "nl"}
Chunks == UNION {[1 .. n -> Pieces] : n \in 1 .. MaxChunkLen}

\* buffer.includes("\n")
HasNewline(buffer) == \E i \in 1 .. Len(buffer) : buffer[i] = "nl"
\* const [line] = buffer.split("\n")
FirstLine(buffer) ==
    LET i == CHOOSE k \in 1 .. Len(buffer) :
                 buffer[k] = "nl" /\ \A j \in 1 .. k - 1 : buffer[j] # "nl"
    IN  SubSeq(buffer, 1, i - 1)
\* handleRequestJson reaches runCompletion
RequestAccepted(line) == line = <<"a", "b">>

\* socket.write(line + "\n"); socket.end(): what a write after end() does is left to
\* the socket library
WriteAndEnd(t) ==
    {[t EXCEPT !.written = w, !.ended = TRUE] :
        w \in IF t.ended THEN {t.written, t.written + 1} ELSE {t.written + 1}}

TcpUnchanged == UNCHANGED <<now, androidVars, geminiVars, statsVars, slotVars, histVars>>

\* socket.on("data", ...)
TcpData(chunk) ==
    /\ ~tcp.ended
    /\ tcp.events < MaxDataEvents
    /\ LET buffer == tcp.buffer \o chunk
           t == [tcp EXCEPT !.events = @ + 1]
       IN  IF ~HasNewline(buffer)
           THEN tcp' = [t EXCEPT !.buffer = buffer]
           ELSE IF RequestAccepted(FirstLine(buffer))
           THEN tcp' = [t EXCEPT !.buffer = <<>>, !.running = @ + 1,
                                 !.completions = @ + 1]
           ELSE tcp' \in WriteAndEnd([t EXCEPT !.buffer = <<>>])
    /\ TcpUnchanged

\* runCompletion is done: the then or the catch callback of handleRequestJson(line)
TcpCompletionSettles ==
    /\ tcp.running > 0
    /\ tcp' \in WriteAndEnd([tcp EXCEPT !.running = @ - 1])
    /\ TcpUnchanged

NextTcp ==
    \/ \E chunk \in Chunks : TcpData(chunk)
    \/ TcpCompletionSettles

SpecTcp == Init /\ [][NextTcp]_vars

---------------------------------------------------------------------------
(* The routing functions on their own: a caller applies a function of      *)
(* routing.ts to an argument and keeps the result in out.                  *)

EvalConfidences == {None, Some(0), Some(450), Some(500), Some(699), Some(700), Some(950),
                    Some(1000)}
EvalHandoffs == {NoBool, [has |-> TRUE, val |-> TRUE], [has |-> TRUE, val |-> FALSE]}
EvalThresholds == {0, 500, 700, 1000}
EvalResults ==
    {NoLocalResult}
    \cup {LocalResult(c, h) : c \in EvalConfidences, h \in EvalHandoffs}

EvalConfidence(localResult, confidenceThreshold) ==
    /\ out' = [kind |-> "eval", localResult |-> localResult,
               confidenceThreshold |-> confidenceThreshold,
               decision |-> evaluateConfidenceRouting(localResult, confidenceThreshold)]
    /\ UNCHANGED <<tcp, now, androidVars, geminiVars, statsVars, slotVars,
                   androidFailsSince, geminiFailsSince, androidFetches, geminiSends>>

MaxMessages == 3        \* messages in an argument of estimateTokens

\* values of metadata.mode: strings, and values of other types (v is the text of
\* the value, as of the array ["local"], which no test on a string may read)
EvalRawModes ==
    {[t |-> "string", v |-> v] : v \in {"local", "cloud", "auto", "LOCAL", "Auto", "", "hybrid"}}
    \cup {[t |-> t, v |-> v] : t \in {"undefined", "null", "number", "boolean", "object"},
                               v \in {"", "local"}}

EvalContentLengths == {0, 2, 4, 5, 6000, 6001}
EvalMessages ==
    UNION {[1 .. n -> {Message(len) : len \in EvalContentLengths}] : n \in 0 .. MaxMessages}

RoutingUnchanged ==
    UNCHANGED <<tcp, now, androidVars, geminiVars, statsVars, slotVars,
                androidFailsSince, geminiFailsSince, androidFetches, geminiSends>>

\* resolveMode(raw), and resolveMode of its result
EvalResolveMode(raw) ==
    /\ out' = [kind |-> "mode", raw |-> raw, mode |-> resolveMode(raw),
               again |-> resolveMode([t |-> "string", v |-> resolveMode(raw)])]
    /\ RoutingUnchanged

\* estimateTokens(messages)
EvalEstimateTokens(messages) ==
    /\ out' = [kind |-> "tokens", messages |-> messages, tokens |-> estimateTokens(messages)]
    /\ RoutingUnchanged

\* determineTarget(messages, mode) and determineTargetHybrid(messages, mode)
EvalDetermineTarget(messages, mode) ==
    /\ out' = [kind |-> "target", messages |-> messages, mode |-> mode,
               legacy |-> determineTarget(messages, mode),
               hybrid |-> determineTargetHybrid(messages, mode, NoLocalResult)]
    /\ RoutingUnchanged

NextRouting ==
    \/ \E localResult \in EvalResults, confidenceThreshold \in EvalThresholds :
            EvalConfidence(localResult, confidenceThreshold)
    \/ \E raw \in EvalRawModes : EvalResolveMode(raw)
    \/ \E messages \in EvalMessages : EvalEstimateTokens(messages)
    \/ \E messages \in EvalMessages, mode \in VALID_MODES :
            EvalDetermineTarget(messages, mode)

SpecRouting == Init /\ [][NextRouting]_vars

---------------------------------------------------------------------------
(* Properties of the circuit breakers, checked under SpecCB *)

ProbesInFlight(state) == {r \in Slots : pc[r] = state /\ probe[r]}

\* C1: from CLOSED a breaker becomes OPEN exactly on the step that brings the number
\* of tripworthy failures reported since the last reported success to the failure
\* threshold (3); below the threshold it stays CLOSED, and the failure counter
\* (reset to 0 by a success) is that number.
C1_OpensExactlyAtThreshold ==
    /\ [](/\ consecutiveFailures = androidFailsSince
          /\ cbFailures = geminiFailsSince
          /\ circuitState = "CLOSED" => androidFailsSince < FAILURE_THRESHOLD
          /\ cbState = "CLOSED" => geminiFailsSince < CB_FAILURE_THRESHOLD)
    /\ [][/\ circuitState = "CLOSED" =>
                /\ circuitState' \in {"CLOSED", "OPEN"}
                /\ circuitState' = "OPEN" <=> androidFailsSince' = FAILURE_THRESHOLD
          /\ cbState = "CLOSED" =>
                /\ cbState' \in {"CLOSED", "OPEN"}
                /\ cbState' = "OPEN" <=> geminiFailsSince' = CB_FAILURE_THRESHOLD]_vars

\* both breakers have been opened by their third failure
C1_Witness ==
    /\ circuitState = "OPEN" /\ androidFailsSince = FAILURE_THRESHOLD
    /\ cbState = "OPEN" /\ geminiFailsSince = CB_FAILURE_THRESHOLD

\* C2: while a breaker is OPEN and the reset timeout has not elapsed, a call to
\* callAndroidCactus / callGemini throws the circuit-open error, starts no backend
\* call and leaves the breaker's variables unchanged.
C2_OpenFastFails ==
    [][\A r \in Slots :
        /\ (circuitState = "OPEN" /\ now - openedAt < RESET_TIMEOUT_MS /\ CallAndroid(r)) =>
                /\ pc'[r] = "idle"
                /\ out'.kind = "throw" /\ out'.msg.id = "android_circuit_open"
                /\ androidFetches' = androidFetches
                /\ UNCHANGED androidVars
        /\ (cbState = "OPEN" /\ now - cbOpenedAt < CB_RESET_TIMEOUT_MS /\ CallGemini(r)) =>
                /\ pc'[r] = "idle"
                /\ out'.kind = "throw" /\ out'.msg.id = "gemini_circuit_open"
                /\ geminiSends' = geminiSends
                /\ UNCHANGED geminiVars]_vars

\* a call was just rejected by the cloud breaker half way through its reset timeout
C2_Witness ==
    /\ cbState = "OPEN" /\ now - cbOpenedAt > 0 /\ now - cbOpenedAt < CB_RESET_TIMEOUT_MS
    /\ out.kind = "throw" /\ out.msg.id = "gemini_circuit_open"
    /\ circuitState = "OPEN"

\* C3: once a caller has been admitted as the half-open probe, every other caller
\* that arrives before that probe has reported is rejected with the circuit-open
\* error and starts no backend call.
C3_OthersRejectedUntilProbeReports ==
    [][\A r \in Slots :
        /\ (CallAndroid(r) /\ ProbesInFlight("await_local") # {}) =>
                (pc'[r] = "idle" /\ out'.kind = "throw" /\ androidFetches' = androidFetches)
        /\ (CallGemini(r) /\ ProbesInFlight("await_cloud") # {}) =>
                (pc'[r] = "idle" /\ out'.kind = "throw" /\ geminiSends' = geminiSends)]_vars

\* C4: each breaker has at most one backend call in flight that was admitted as a
\* half-open probe.
C4_SingleProbeInFlight ==
    /\ Cardinality(ProbesInFlight("await_local")) <= 1
    /\ Cardinality(ProbesInFlight("await_cloud")) <= 1

\* C5: a breaker leaves OPEN only into HALF_OPEN and only once the reset timeout
\* has elapsed.
C5_OpenLeavesOnlyToHalfOpen ==
    [][/\ (circuitState = "OPEN" /\ circuitState' # "OPEN") =>
                (circuitState' = "HALF_OPEN" /\ now - openedAt >= RESET_TIMEOUT_MS)
       /\ (cbState = "OPEN" /\ cbState' # "OPEN") =>
                (cbState' = "HALF_OPEN" /\ now - cbOpenedAt >= CB_RESET_TIMEOUT_MS)]_vars

\* C6: when the probe admitted in HALF_OPEN succeeds, the breaker becomes CLOSED
\* with the failure counter 0 and no probe in flight, and the next call is admitted.
C6_ProbeSuccessCloses ==
    [][\A r \in Slots :
        /\ (probe[r] /\ circuitState = "HALF_OPEN" /\ AndroidReturns(r)) =>
                /\ circuitState' = "CLOSED" /\ consecutiveFailures' = 0
                /\ halfOpenProbeInFlight' = FALSE
                /\ circuitAllow(AndroidCB, now).ok'
        /\ (probe[r] /\ cbState = "HALF_OPEN" /\ GeminiReturns(r)) =>
                /\ cbState' = "CLOSED" /\ cbFailures' = 0
                /\ cbHalfOpenInFlight' = FALSE
                /\ cbAllow(GeminiCB, now).ok']_vars

\* the cloud probe has just succeeded, after the reset timeout, and closed the breaker
C6_Witness ==
    /\ out.kind = "return" /\ out.probe /\ geminiFailsSince = 0
    /\ cbState = "CLOSED" /\ cbFailures = 0 /\ ~cbHalfOpenInFlight
    /\ now - cbOpenedAt >= CB_RESET_TIMEOUT_MS /\ geminiSends = CB_FAILURE_THRESHOLD + 1

\* C7 as claimed: when the probe admitted in HALF_OPEN fails, the breaker becomes
\* OPEN with openedAt the time of the failure and no probe in flight.
C7_ProbeFailureReopens ==
    [][\A r \in Slots :
        /\ (probe[r] /\ circuitState = "HALF_OPEN" /\ AndroidThrows(r)) =>
                /\ circuitState' = "OPEN" /\ openedAt' = now
                /\ halfOpenProbeInFlight' = FALSE
        /\ (probe[r] /\ cbState = "HALF_OPEN" /\ GeminiThrows(r)) =>
                /\ cbState' = "OPEN" /\ cbOpenedAt' = now
                /\ cbHalfOpenInFlight' = FALSE]_vars

\* C7 as amended: a probe failure reopens the breaker with openedAt the time of the
\* failure and no probe in flight, unless it is a cloud failure of the kinds that do
\* not count (invalid or revoked key, quota exceeded): that one leaves the cloud
\* breaker HALF_OPEN with no probe in flight and cbOpenedAt unchanged.
C7_TripworthyProbeFailureReopens ==
    [][\A r \in Slots :
        /\ (probe[r] /\ circuitState = "HALF_OPEN" /\ AndroidThrows(r)) =>
                /\ circuitState' = "OPEN" /\ openedAt' = now
                /\ halfOpenProbeInFlight' = FALSE
                /\ ~circuitAllow(AndroidCB, now).ok'
        /\ (probe[r] /\ cbState = "HALF_OPEN" /\ GeminiThrows(r)) =>
                IF out'.msg \in PermanentAuthOrQuota
                THEN /\ cbState' = "HALF_OPEN" /\ cbOpenedAt' = cbOpenedAt
                     /\ cbHalfOpenInFlight' = FALSE
                ELSE /\ cbState' = "OPEN" /\ cbOpenedAt' = now
                     /\ cbHalfOpenInFlight' = FALSE
                     /\ ~cbAllow(GeminiCB, now).ok']_vars

\* the local probe has just failed and reopened the breaker at the present time
C7_Witness ==
    /\ out.kind = "throw" /\ out.probe /\ out.msg \in AndroidFailures
    /\ circuitState = "OPEN" /\ openedAt = now /\ now >= RESET_TIMEOUT_MS
    /\ consecutiveFailures = FAILURE_THRESHOLD + 1

\* C8: a cloud failure "invalid or revoked" (401) or "quota exceeded" (403) leaves
\* cbFailures and the breaker's state as they were, in every state of the breaker.
C8_PermanentFailuresDoNotCount ==
    [][\A r \in Slots :
        (pc[r] = "await_cloud" /\ out'.kind = "throw"
            /\ out'.msg \in PermanentAuthOrQuota /\ GeminiThrows(r)) =>
            (cbFailures' = cbFailures /\ cbState' = cbState /\ cbOpenedAt' = cbOpenedAt)]_vars

\* a quota failure has just been reported with two failures counted: the breaker is
\* still CLOSED
C8_Witness ==
    /\ out.kind = "throw" /\ out.msg = GeminiQuotaMsg
    /\ cbState = "CLOSED" /\ cbFailures = CB_FAILURE_THRESHOLD - 1

\* C19: the outcome of a backend call is reported to the breaker of that backend
\* and to no other: a return or throw of a local call leaves the Gemini breaker as
\* it was and the other way round, and a call is rejected only on the state of its
\* own breaker, so an OPEN Android breaker never rejects a Gemini call and an OPEN
\* Gemini breaker never rejects an Android call.
C19_OutcomeReportedToOwnBreaker ==
    [][/\ \A r \in Slots :
            (pc[r] = "await_local" /\ pc'[r] = "idle") =>
                /\ UNCHANGED geminiVars
                /\ IF out'.kind = "return"
                   THEN consecutiveFailures' = 0 /\ circuitState' = "CLOSED"
                   ELSE consecutiveFailures' = consecutiveFailures + 1
       /\ \A r \in Slots :
            (pc[r] = "await_cloud" /\ pc'[r] = "idle") =>
                /\ UNCHANGED androidVars
                /\ IF out'.kind = "return"
                   THEN cbFailures' = 0 /\ cbState' = "CLOSED"
                   ELSE cbFailures' = IF out'.msg.id \in {"gemini_auth", "gemini_quota"}
                                      THEN cbFailures ELSE cbFailures + 1
       /\ (now' = now /\ pc' = pc /\ out'.kind = "throw") =>
            /\ out'.msg.id = "gemini_circuit_open" =>
                  /\ \/ cbState = "OPEN" /\ now - cbOpenedAt < CB_RESET_TIMEOUT_MS
                     \/ cbState = "HALF_OPEN" /\ cbHalfOpenInFlight
                  /\ UNCHANGED androidVars
            /\ out'.msg.id = "android_circuit_open" =>
                  /\ \/ circuitState = "OPEN" /\ now - openedAt < RESET_TIMEOUT_MS
                     \/ circuitState = "HALF_OPEN" /\ halfOpenProbeInFlight
                  /\ UNCHANGED geminiVars
      ]_vars

\* a Gemini call was admitted 30 s after the Android breaker opened, while that
\* breaker was still OPEN with its three failures
C19_Witness ==
    /\ circuitState = "OPEN" /\ consecutiveFailures = 3 /\ openedAt = 0
    /\ now = TickMs /\ androidFetches = 3 /\ geminiSends = 1
    /\ cbState = "CLOSED" /\ cbFailures = 0
    /\ out.kind = "started"
    /\ \E r \in Slots : pc[r] = "await_cloud" /\ callStart[r] = TickMs

\* C32: while a breaker is OPEN its openedAt is not modified: a failure reported
\* while it is OPEN by a call admitted before it opened does not refresh openedAt,
\* so the first probe is admitted no later than the reset timeout after the
\* breaker entered OPEN.
C32_OpenedAtFrozenWhileOpen ==
    [][/\ (circuitState = "OPEN" /\ circuitState' = "OPEN") => openedAt' = openedAt
       /\ (cbState = "OPEN" /\ cbState' = "OPEN") => cbOpenedAt' = cbOpenedAt]_vars

\* C33: the breaker-trip counter counts the transitions of a breaker, local or
\* cloud, from CLOSED or HALF_OPEN into OPEN: it grows by one on each such
\* transition and changes on no other step.
C33_TripCountCountsTransitionsIntoOpen ==
    [][circuitTripCount' = circuitTripCount
            + (IF circuitState # "OPEN" /\ circuitState' = "OPEN" THEN 1 ELSE 0)
            + (IF cbState # "OPEN" /\ cbState' = "OPEN" THEN 1 ELSE 0)]_vars

\* C34: every circuit-open rejection reports a remaining wait of N seconds with
\* 1 <= N <= the reset timeout in seconds, whether the caller was rejected in OPEN
\* before the timeout or in HALF_OPEN while the probe is in flight.
C34_RemainingWaitWithinTimeout ==
    out.kind = "throw" =>
        /\ out.msg.id = "android_circuit_open" =>
                (1 <= out.msg.secs /\ out.msg.secs <= RESET_TIMEOUT_MS \div 1000)
        /\ out.msg.id = "gemini_circuit_open" =>
                (1 <= out.msg.secs /\ out.msg.secs <= CB_RESET_TIMEOUT_MS \div 1000)

---------------------------------------------------------------------------
(* Properties of the request handler, checked under Spec *)

\* the messages field is missing, not an array, empty, or holds a message without
\* string role and string content
MessagesMalformed(body) ==
    \/ body.messages.t # "array"
    \/ body.messages.items = <<>>
    \/ \E i \in 1 .. Len(body.messages.items) :
          ~(body.messages.items[i].role.str /\ body.messages.items[i].content.str)

---------------------------------------------------------------------------
(* Properties of routing, checked under Spec *)

\* the last response answers a request that passed validation
Answered == out.kind = "response" /\ out.status \notin {400, 501}

\* the requests waiting for a backend, and the request just answered, each with its
\* history
RequestsSeen ==
    {ctx[r] : r \in {x \in Slots : pc[x] # "idle"}}
    \cup (IF Answered THEN {out.req} ELSE {})

\* metadata.mode is absent, "auto", or a value that is no mode
AutoMode(raw) == ~(raw.t = "string" /\ raw.v \in {"local", "cloud"})

ByRequest(r) ==
    /\ now' = now /\ out'.kind \in {"started", "response"} /\ out'.slot = r
    /\ out'.kind = "response" => out'.status \notin {400, 501}

\* the request of slot r after the step, with its history
StepRequest(r) == IF pc'[r] # "idle" THEN ctx'[r] ELSE out'.req

\* C12: a request with mode cloud calls only the cloud adapter: every step of it
\* leaves the local breaker as it was and starts no local call, local_attempt is
\* false and routing_reason is mode_override.
C12_CloudModeOnlyCloud ==
    [][\A r \in Slots :
        (ByRequest(r) /\ StepRequest(r).mode = "cloud") =>
            /\ UNCHANGED androidVars /\ androidFetches' = androidFetches
            /\ StepRequest(r).localCalls = 0 /\ StepRequest(r).cloudCalls = 1
            /\ ~StepRequest(r).localAttempted
            /\ StepRequest(r).routingReason = Reason("mode_override", 0, 0)
            /\ (out'.kind = "response" /\ out'.status = 200) =>
                    /\ out'.model = "lfo-gemini"
                    /\ out'.lfo_metadata.local_attempt = FALSE
                    /\ out'.lfo_metadata.routing_reason = Reason("mode_override", 0, 0)]_vars

\* a request with mode cloud has been answered by Gemini while the local breaker
\* keeps the failure it had counted
C12_Witness ==
    /\ Answered /\ out.status = 200 /\ out.req.mode = "cloud"
    /\ out.model = "lfo-gemini" /\ consecutiveFailures = 1 /\ geminiSends = 1

\* C13: a request with mode local never calls the cloud backend.
C13_LocalModeNeverCloud ==
    \A c \in RequestsSeen : c.mode = "local" => c.cloudCalls = 0

\* the local result asks for the cloud: its cloud_handoff is true, or its confidence
\* (0.5 when absent) is below the threshold (0.7 when the request gives none)
Escalates(localResult, rawThreshold) ==
    \/ localResult.cloud_handoff = [has |-> TRUE, val |-> TRUE]
    \/ (IF localResult.confidence.has THEN localResult.confidence.val ELSE 500)
           < (IF rawThreshold.has THEN rawThreshold.val ELSE 700)

EscalationReason(localResult, confidenceThreshold) ==
    IF localResult.cloud_handoff = [has |-> TRUE, val |-> TRUE]
    THEN Reason("cloud_handoff_flag", 0, 0)
    ELSE Reason("low_confidence_below",
                ToFixed2(IF localResult.confidence.has THEN localResult.confidence.val
                         ELSE 500),
                confidenceThreshold)

\* C16: the 200 response of a request that went from the local backend to the
\* cloud backend carries the cloud model id, local_attempt true and the escalation
\* reason computed from the local result (cloud_handoff_flag or
\* low_confidence_<c>_below_<threshold>); its stats record has target cloud.
C16_EscalatedResponseKeepsReason ==
    (Answered /\ out.status = 200 /\ out.req.localCalls = 1 /\ out.req.cloudCalls = 1) =>
        /\ out.model = "lfo-gemini"
        /\ out.lfo_metadata.local_attempt
        /\ out.lfo_metadata.routing_reason
              = EscalationReason(out.req.localResult, out.req.confidenceThreshold)
        /\ out.lfo_metadata.routing_reason.tag \in {"cloud_handoff_flag", "low_confidence_below"}
        /\ Len(ringBuffer) > 0
        /\ ringBuffer[Len(ringBuffer)].target = "cloud"
        /\ ringBuffer[Len(ringBuffer)].status = 200

\* scenario C: confidence 0.45 under the threshold 0.7, answered by Gemini with a
\* reason that names 0.45
C16_Witness ==
    /\ Answered /\ out.status = 200 /\ out.model = "lfo-gemini"
    /\ out.req.localResult.has
    /\ out.req.localResult.confidence = Some(450) /\ out.req.confidenceThreshold = 700
    /\ out.lfo_metadata.routing_reason = Reason("low_confidence_below", 45, 700)
    /\ out.lfo_metadata.local_attempt
    /\ ringBuffer[Len(ringBuffer)].target = "cloud"

\* C17: a request invokes the local adapter at most once and the cloud adapter at
\* most once, and both only when the local call had returned a result before the
\* cloud call started; no backend is called a second time for a request.
C17_AtMostOneCallPerBackend ==
    /\ \A c \in RequestsSeen :
          /\ c.localCalls <= 1 /\ c.cloudCalls <= 1
          /\ (c.localCalls = 1 /\ c.cloudCalls = 1) => c.localResult.has
    /\ \A r \in Slots :
          /\ pc[r] = "await_local" => ctx[r].localCalls = 1 /\ ctx[r].cloudCalls = 0
          /\ pc[r] = "await_cloud" => ctx[r].cloudCalls = 1
    /\ androidFetches <= Accepted /\ geminiSends <= Accepted

\* an escalated request whose cloud call failed was answered with the failure after
\* one call of each backend
C17_Witness ==
    /\ Answered /\ out.status = 429
    /\ out.req.localCalls = 1 /\ out.req.cloudCalls = 1 /\ out.req.localResult.has
    /\ androidFetches = 1 /\ geminiSends = 1 /\ totalRequests = 1

\* C22: every 200 response carries confidence, routing_reason and local_attempt in
\* its lfo_metadata, on every success path (cloud mode, token skip, local final,
\* escalation).
C22_MetadataTripletPresent ==
    (Answered /\ out.status = 200) =>
        /\ out.lfo_metadata.confidence.has
        /\ out.lfo_metadata.routing_reason.tag
              \in {"mode_override", "tokens_exceeds", "high_confidence",
                   "cloud_handoff_flag", "low_confidence_below"}
        /\ out.lfo_metadata.local_attempt \in BOOLEAN

\* the step is the completion of the request of slot r
Completes(r) ==
    /\ now' = now /\ out'.kind = "response" /\ out'.slot = r
    /\ out'.status \notin {400, 501}

\* C24: the completion of a request that passed the checks, success or failure,
\* adds exactly one record and one to total_requests (also after an escalation): a
\* success has status 200 and error null, a failure a status >= 400,
\* completion_tokens 0 and an error message; no other step touches the records.
C24_OneRecordPerRequest ==
    [][IF \E r \in Slots : Completes(r)
       THEN /\ totalRequests' = totalRequests + 1
            /\ Len(ringBuffer') = Len(ringBuffer) + 1
            /\ SubSeq(ringBuffer', 1, Len(ringBuffer)) = ringBuffer
            /\ LET rec == ringBuffer'[Len(ringBuffer')] IN
                 IF out'.status = 200
                 THEN rec.status = 200 /\ rec.error = NoError
                 ELSE /\ rec.status >= 400 /\ rec.status = out'.status
                      /\ rec.completion_tokens = 0
                      /\ rec.error # NoError /\ rec.error = out'.message
       ELSE UNCHANGED ringVars
      ]_vars

\* two requests tried the bridge; one was escalated and answered by Gemini, the
\* other failed on the unreachable bridge; each left one record
C24_Witness ==
    /\ totalRequests = 2 /\ Len(ringBuffer) = 2
    /\ androidFetches = 2 /\ geminiSends = 1
    /\ ringBuffer[1].status = 200 /\ ringBuffer[1].target = "cloud"
    /\ ringBuffer[1].error = NoError
    /\ ringBuffer[2].status = 503 /\ ringBuffer[2].completion_tokens = 0
    /\ ringBuffer[2].error = AndroidUnreachableMsg
    /\ \A r \in Slots : pc[r] = "idle"

\* C25: a backend call that has run past its deadline ends as a timeout and as
\* nothing else: the request is answered 504 lfo_timeout and the called backend's
\* breaker counts one failure; no result or other error of the call is taken after
\* the deadline.
C25_DeadlineExceededIsTimeout ==
    [][\A r \in Slots :
          /\ (pc[r] = "await_local" /\ now - callStart[r] > ANDROID_TIMEOUT
                 /\ pc'[r] # "await_local") =>
                /\ out'.kind = "response" /\ out'.slot = r
                /\ out'.status = 504 /\ out'.type = "lfo_timeout"
                /\ consecutiveFailures' = consecutiveFailures + 1
                /\ UNCHANGED geminiVars
          /\ (pc[r] = "await_cloud" /\ now - callStart[r] > GEMINI_TIMEOUT
                 /\ pc'[r] # "await_cloud") =>
                /\ out'.kind = "response" /\ out'.slot = r
                /\ out'.status = 504 /\ out'.type = "lfo_timeout"
                /\ cbFailures' = cbFailures + 1
                /\ UNCHANGED androidVars
      ]_vars

\* C40: on every successful response lfo_metadata.local_attempt is true exactly when
\* the local adapter was invoked for the request: false in explicit cloud mode and
\* when the token count skips the local backend, true for a final local result and
\* for an escalation from the local backend to the cloud.
C40_LocalAttemptIffLocalInvoked ==
    (out.kind = "response" /\ out.status = 200) =>
        LET attempt == out.lfo_metadata.local_attempt
            c == out.req
        IN  /\ attempt <=> c.localCalls > 0
            /\ c.mode = "cloud" => ~attempt
            /\ (c.mode = "auto" /\ c.promptTokens > MaxLocalTokens) => ~attempt
            /\ out.model = "lfo-local-functiongemma" => attempt
            /\ (c.localCalls > 0 /\ c.cloudCalls > 0) => attempt

\* a request was escalated from the local backend and answered by Gemini, and
\* reports the local attempt
C40_Witness ==
    /\ out.kind = "response" /\ out.status = 200
    /\ out.model = "lfo-gemini"
    /\ out.req.localCalls = 1 /\ out.req.cloudCalls = 1
    /\ out.lfo_metadata.local_attempt

---------------------------------------------------------------------------
(* Properties of the handler under failing backends, checked under SpecLoad *)

\* the failures of the local backend: its errors, its timeout and the rejection by
\* its open breaker
IsLocalFailure(message) ==
    message.id \in {"android_timeout", "android_unreachable", "android_http",
                    "android_empty", "android_rethrown", "android_circuit_open"}

\* C18: a request whose local backend call failed (backend error, timeout or
\* rejection by the open local breaker), in any mode, is answered with that failure
\* as an error response and never calls the cloud backend.
C18_LocalFailureNoFallback ==
    /\ \A c \in RequestsSeen : (c.localCalls = 1 /\ ~c.localResult.has) => c.cloudCalls = 0
    /\ \A r \in Slots : (pc[r] = "await_cloud" /\ ctx[r].localCalls = 1) =>
                             ctx[r].localResult.has
    /\ (Answered /\ out.req.localCalls = 1 /\ ~out.req.localResult.has) =>
          /\ out.status >= 400
          /\ IsLocalFailure(out.message)
          /\ out.req.cloudCalls = 0
          /\ ringBuffer[Len(ringBuffer)].status = out.status
          /\ ringBuffer[Len(ringBuffer)].error = out.message
    /\ (Answered /\ out.status >= 400 /\ IsLocalFailure(out.message)) =>
          out.req.localCalls = 1 /\ out.req.cloudCalls = 0

\* a request in auto mode was rejected by the open local breaker after three
\* failures, one of them a timeout, and no request ever reached Gemini
C18_Witness ==
    /\ Answered /\ out.status = 503 /\ out.message.id = "android_circuit_open"
    /\ out.req.mode = "auto" /\ out.req.cloudCalls = 0
    /\ circuitState = "OPEN" /\ geminiSends = 0 /\ androidFetches = 3
    /\ \E i \in 1 .. Len(ringBuffer) : ringBuffer[i].error = AndroidTimeoutMsg
    /\ \E i \in 1 .. Len(ringBuffer) : ringBuffer[i].mode = "local"

\* the status and type that the error table gives a failure
ExpectedStatus(message) ==
    CASE message.id \in {"android_timeout", "gemini_timeout"}
             -> [status |-> 504, type |-> "lfo_timeout"]
      [] message.id = "gemini_rate_limit"
             -> [status |-> 429, type |-> "rate_limit_exceeded"]
      [] message.id = "gemini_quota"
             -> [status |-> 403, type |-> "quota_exceeded"]
      [] message.id \in {"android_unreachable", "android_circuit_open",
                         "gemini_circuit_open"}
             -> [status |-> 503, type |-> "service_unavailable"]
      [] message.id = "gemini_auth"
             -> [status |-> 401, type |-> "authentication_error"]
      [] OTHER -> [status |-> 502, type |-> "lfo_provider_error"]

\* the failures that a backend step can throw
ThrownFailures ==
    AndroidFailures \cup GeminiFailures
    \cup {AndroidDeviceErrorMsg, AndroidUnknownMsg, GeminiUnknownMsg, NonErrorThrown}
    \cup {AndroidCircuitOpenMsg(secs) : secs \in {1, 30}}
    \cup {GeminiCircuitOpenMsg(secs) : secs \in {1, 60}}

\* C20: every failure of a backend step gets one error response whose status and
\* type follow the table: timeout 504 lfo_timeout, rate limit 429
\* rate_limit_exceeded, quota 403 quota_exceeded, unreachable or circuit open 503
\* service_unavailable, invalid or revoked key 401 authentication_error, anything
\* else (a thrown value that is no Error included) 502 lfo_provider_error.
C20_FailureStatusMapping ==
    /\ \A error \in ThrownFailures :
          ErrorStatus(CaughtMessage(error)) = ExpectedStatus(error)
    /\ (Answered /\ out.status # 200) =>
          /\ [status |-> out.status, type |-> out.type] = ExpectedStatus(out.message)
          /\ out.code \in {"local", "cloud"}
          /\ ringBuffer[Len(ringBuffer)].status = out.status
          /\ ringBuffer[Len(ringBuffer)].error = out.message
          /\ pc[out.slot] = "idle"
    /\ totalErrors = Cardinality({i \in 1 .. Len(ringBuffer) : ringBuffer[i].status >= 400})

\* a request in cloud mode was rejected by Gemini's open breaker and answered 503
\* service_unavailable, after failures answered 429 and 502
C20_Witness ==
    /\ Answered /\ out.status = 503 /\ out.type = "service_unavailable"
    /\ out.message.id = "gemini_circuit_open" /\ cbState = "OPEN"
    /\ \E i \in 1 .. Len(ringBuffer) : ringBuffer[i].status = 429
    /\ \E i \in 1 .. Len(ringBuffer) : ringBuffer[i].status = 502

\* the rejections that a breaker produces without a backend call
IsCircuitOpen(message) == message.id \in {"android_circuit_open", "gemini_circuit_open"}
\* the failures that come out of an actual backend call
BackendProduced(message) == message # NoError /\ ~IsCircuitOpen(message)

\* over the failures that a backend step can throw: the word "circuit" is in the
\* message of the circuit-open rejections only, and a failure of a backend call with
\* the status and type of a circuit-open rejection is the unreachable bridge
CircuitOpenToldByMessage ==
    /\ \A e \in ThrownFailures :
          IsCircuitOpen(e) <=> Includes(CaughtMessage(e), "circuit")
    /\ \A e, f \in ThrownFailures :
          (IsCircuitOpen(e) /\ ~IsCircuitOpen(f)
             /\ ErrorStatus(CaughtMessage(e)) = ErrorStatus(CaughtMessage(f)))
          => f = AndroidUnreachableMsg

\* C21 as claimed: the status (and with it the type) of a circuit-open rejection is
\* never the status of a failure that a backend call produced.
C21_CircuitOpenStatusDistinct ==
    (Answered /\ out.status >= 400 /\ IsCircuitOpen(out.message)) =>
        \A i \in 1 .. Len(ringBuffer) :
            BackendProduced(ringBuffer[i].error) => ringBuffer[i].status # out.status

\* C21 as amended: a circuit-open rejection is answered 503 service_unavailable, the
\* type and status of an unreachable backend and of no other failure of a backend
\* call; it is told from every failure of a backend call by its message, which
\* alone holds the word "circuit".
C21_CircuitOpenDistinctByMessage ==
    /\ CircuitOpenToldByMessage
    /\ (Answered /\ out.status >= 400 /\ IsCircuitOpen(out.message)) =>
          /\ out.status = 503 /\ out.type = "service_unavailable"
          /\ \A i \in 1 .. Len(ringBuffer) :
                (BackendProduced(ringBuffer[i].error) /\ ringBuffer[i].status = out.status)
                => ringBuffer[i].error = AndroidUnreachableMsg

\* the bridge was unreachable three times, each answered 503, and the next request
\* was rejected by the open breaker and answered 503 service_unavailable as well
C21_Witness ==
    /\ Answered /\ out.status = 503 /\ out.type = "service_unavailable"
    /\ out.message.id = "android_circuit_open"
    /\ Len(ringBuffer) = 4
    /\ \A i \in 1 .. 3 : /\ ringBuffer[i].error = AndroidUnreachableMsg
                          /\ ringBuffer[i].status = 503

\* C35: for every failed request the target of its record and the backend named in
\* the code of the error response are the backend whose call failed: cloud for a
\* failure of the cloud step (on any path, after an escalation too), local for a
\* failure of the local step.
C35_ErrorNamesFailedBackend ==
    (Answered /\ out.status # 200) =>
        LET failed == IF out.req.cloudCalls > 0 THEN "cloud" ELSE "local" IN
        /\ out.code = failed
        /\ ringBuffer[Len(ringBuffer)].target = failed

---------------------------------------------------------------------------
(* Properties of the routing functions, checked under SpecRouting *)

\* C15: evaluateConfidenceRouting looks at the flag before the confidence: with
\* cloud_handoff true the decision is cloud with reason cloud_handoff_flag whatever
\* the confidence and the threshold, a low_confidence reason comes only with a
\* cloud_handoff that is not true, and without a prior result the decision is local
\* with reason initial_attempt.
C15_HandoffBeforeConfidence ==
    out.kind = "eval" =>
        /\ ~out.localResult.has =>
                /\ out.decision.target = "local"
                /\ out.decision.reason = Reason("initial_attempt", 0, 0)
        /\ (out.localResult.has /\ out.localResult.cloud_handoff = [has |-> TRUE, val |-> TRUE]) =>
                /\ out.decision.target = "cloud"
                /\ out.decision.reason = Reason("cloud_handoff_flag", 0, 0)
        /\ out.decision.reason.tag = "low_confidence_below" =>
                /\ out.localResult.has
                /\ out.localResult.cloud_handoff # [has |-> TRUE, val |-> TRUE]

\* the flag was set on a result of confidence 0.45 under the threshold 0.7: the
\* decision is cloud by the flag
C15_Witness ==
    /\ out.kind = "eval" /\ out.localResult.has
    /\ out.localResult.cloud_handoff = [has |-> TRUE, val |-> TRUE]
    /\ out.localResult.confidence = Some(450) /\ out.confidenceThreshold = 700
    /\ out.decision.reason.tag = "cloud_handoff_flag"

\* C26: resolveMode returns its argument for the strings "local", "cloud" and
\* "auto" and "auto" for everything else (absent, null, values of other types,
\* other spellings); applying it to its own result changes nothing.
C26_ResolveModeTotal ==
    out.kind = "mode" =>
        /\ out.mode \in {"local", "cloud", "auto"}
        /\ IF out.raw.t = "string" /\ out.raw.v \in {"local", "cloud", "auto"}
           THEN out.mode = out.raw.v
           ELSE out.mode = "auto"
        /\ out.again = out.mode

\* the string "LOCAL" was resolved to auto
C26_Witness ==
    /\ out.kind = "mode" /\ out.raw = [t |-> "string", v |-> "LOCAL"]
    /\ out.mode = "auto" /\ out.again = "auto"

\* the sum of the content lengths of a sequence of messages
RECURSIVE ContentTotal(_)
ContentTotal(messages) ==
    IF Len(messages) = 0 THEN 0
    ELSE messages[Len(messages)].content.len
         + ContentTotal(SubSeq(messages, 1, Len(messages) - 1))

\* C27: estimateTokens(messages) is the ceiling of L / 4, L being the length of the
\* contents joined with single spaces (their sum plus the number of messages minus
\* one, 0 for no message): 0 for [], 1 for one message of 2 characters, 1501 for
\* one of 6001.
C27_EstimateTokensIsCeilOfJoinedLength ==
    /\ estimateTokens(<<>>) = 0
    /\ estimateTokens(<<Message(2)>>) = 1
    /\ estimateTokens(<<Message(6001)>>) = 1501
    /\ out.kind = "tokens" =>
          LET n == Len(out.messages)
              L == IF n = 0 THEN 0 ELSE ContentTotal(out.messages) + n - 1
          IN  /\ 4 * out.tokens >= L
              /\ 4 * (out.tokens - 1) < L
              /\ out.tokens >= 0

\* two messages of 6000 characters and one of 2: 12004 characters joined, 3001 tokens
C27_Witness ==
    /\ out.kind = "tokens"
    /\ out.messages = <<Message(6000), Message(2), Message(6000)>>
    /\ out.tokens = 3001

\* C28 as claimed: for message sequences A and B, if the sum of the content lengths
\* of A is at most that of B then estimateTokens(A) <= estimateTokens(B).
C28_MonotoneInContentTotal ==
    out.kind = "tokens" =>
        \A B \in EvalMessages :
            ContentTotal(out.messages) <= ContentTotal(B) => out.tokens <= estimateTokens(B)

\* C28 as amended: for message sequences A and B, if the sum of the content lengths
\* of A is at most that of B and A has no more messages than B, then
\* estimateTokens(A) <= estimateTokens(B).
C28_MonotoneInContentTotalAndCount ==
    out.kind = "tokens" =>
        \A B \in EvalMessages :
            (ContentTotal(out.messages) <= ContentTotal(B) /\ Len(out.messages) <= Len(B))
            => out.tokens <= estimateTokens(B)

\* two messages of 2 characters are 5 characters joined and 2 tokens, while one
\* message of 4 characters is 1 token
C28_Witness ==
    /\ out.kind = "tokens" /\ out.messages = <<Message(2), Message(2)>>
    /\ out.tokens = 2 /\ estimateTokens(<<Message(4)>>) = 1

\* C37: the legacy token-count router and the hybrid router agree on the initial
\* target: for every message sequence and every mode determineTarget(messages, mode)
\* is determineTargetHybrid(messages, mode).target when no local result is given.
C37_LegacyAndHybridAgree ==
    out.kind = "target" => out.legacy = out.hybrid.target

\* in auto mode, 1500 estimated tokens go to the local backend and 1501 to the cloud
C37_Witness ==
    /\ out.kind = "target" /\ out.mode = "auto"
    /\ estimateTokens(out.messages) = MaxLocalTokens + 1
    /\ out.legacy = "cloud" /\ out.hybrid.skipLocal
    /\ determineTarget(<<Message(4 * MaxLocalTokens)>>, "auto") = "local"

---------------------------------------------------------------------------
(* Properties of the statistics, checked under SpecStats *)

\* C23: after n calls of recordRequest the ring holds the last min(n, 50) records
\* in the order of their arrival, never more than 50, so that the record dropped at
\* capacity is the oldest; getStats().recent is that content newest first.
C23_RecentIsLastFifty ==
    LET n == Len(RecordsSoFar)
        k == IF n < 50 THEN n ELSE 50
    IN  /\ Len(ringBuffer) = k
        /\ Len(ringBuffer) <= 50
        /\ \A i \in 1 .. k : ringBuffer[i] = RecordsSoFar[n - k + i]
        /\ (out.kind = "stats" /\ out.snapshot.has) =>
              /\ Len(out.snapshot.stats.recent) = k
              /\ \A i \in 1 .. k : out.snapshot.stats.recent[i] = RecordsSoFar[n + 1 - i]

\* 52 records went in, the first of them an error, and getStats shows the 50 records
\* 52 down to 3
C23_Witness ==
    /\ out.kind = "stats" /\ out.snapshot.has /\ Len(out.all) = 52
    /\ out.all[1].status = 503
    /\ Len(out.snapshot.stats.recent) = 50
    /\ out.snapshot.stats.recent[1].ts = 52 /\ out.snapshot.stats.recent[50].ts = 3
    /\ \A i \in 1 .. 50 : out.snapshot.stats.recent[i].status = 200

\* C36: after any sequence of recordRequest calls total_requests = total_local +
\* total_cloud and total_errors is the number of recorded requests with a status
\* >= 400 (so total_errors <= total_requests); no counter ever decreases; getStats
\* leaves the ring and all counters unchanged.
C36_CountersConsistent ==
    /\ [](/\ totalRequests = Len(RecordsSoFar)
          /\ totalRequests = totalLocal + totalCloud
          /\ totalErrors = Cardinality({i \in 1 .. Len(RecordsSoFar) :
                                            RecordsSoFar[i].status >= 400})
          /\ totalErrors <= totalRequests)
    /\ [][/\ totalRequests' >= totalRequests /\ totalLocal' >= totalLocal
          /\ totalCloud' >= totalCloud /\ totalErrors' >= totalErrors
          /\ sumLatencyLocal' >= sumLatencyLocal /\ sumLatencyCloud' >= sumLatencyCloud
          /\ circuitTripCount' >= circuitTripCount
          /\ (out'.kind = "stats" /\ out'.snapshot.has) => UNCHANGED statsVars]_vars

\* getStats was called after three records, one of them a failure
C36_Witness ==
    /\ out.kind = "stats" /\ out.snapshot.has
    /\ totalRequests = 3 /\ totalErrors = 1 /\ totalLocal = 3
    /\ out.snapshot.stats.total_errors = 1

---------------------------------------------------------------------------
(* Properties of the TCP server of the device, checked under SpecTcp *)

\* C29: a connection serves one request: however the client's bytes are split into
\* data events, at most one completion is run and at most one response line is
\* written, and then the socket is closed.
C29_OneRequestPerConnection ==
    /\ tcp.completions <= 1
    /\ tcp.written <= 1
    /\ tcp.written = 1 => tcp.ended

---------------------------------------------------------------------------
(* Properties of the breakers with their reset functions, checked under    *)
(* SpecCBReset                                                             *)

\* C30: in every reachable state of each breaker, the state is CLOSED if and only if
\* the failure counter is below the failure threshold (3): OPEN and HALF_OPEN are
\* only ever held with at least 3 counted failures.
C30_ClosedIffBelowThreshold ==
    /\ circuitState = "CLOSED" <=> consecutiveFailures < FAILURE_THRESHOLD
    /\ cbState = "CLOSED" <=> cbFailures < CB_FAILURE_THRESHOLD

\* the Gemini breaker was reopened by its failed probe, with 4 counted failures, and
\* the Android breaker is one failure below its threshold
C30_Witness ==
    /\ cbState = "OPEN" /\ cbFailures = CB_FAILURE_THRESHOLD + 1
    /\ circuitState = "CLOSED" /\ consecutiveFailures = FAILURE_THRESHOLD - 1

\* C31: in every reachable state of each breaker the probe flag is set only in
\* HALF_OPEN: it is never left set while the breaker is CLOSED or OPEN.
C31_ProbeFlagOnlyInHalfOpen ==
    /\ halfOpenProbeInFlight => circuitState = "HALF_OPEN"
    /\ cbHalfOpenInFlight => cbState = "HALF_OPEN"

\* the Android breaker is HALF_OPEN with its probe in flight
C31_Witness ==
    /\ circuitState = "HALF_OPEN" /\ halfOpenProbeInFlight
    /\ \E r \in Slots : pc[r] = "await_local" /\ probe[r]

---------------------------------------------------------------------------
(* Recovery of the breakers, checked under SpecLive *)

\* C38: breaker recovery: when time keeps advancing, callers keep arriving, every
\* admitted call resolves and from some point on the backend calls succeed, a
\* breaker that is OPEN or HALF_OPEN eventually returns to CLOSED: it stays forever
\* neither in OPEN nor in HALF_OPEN with its probe flag stuck.
C38_BreakersRecover ==
    /\ (circuitState # "CLOSED") ~> (circuitState = "CLOSED")
    /\ (cbState # "CLOSED") ~> (cbState = "CLOSED")

\* the Gemini breaker, opened by three failures and reopened by a failed probe,
\* was closed by the success of its second probe
C38_Witness ==
    /\ cbState = "CLOSED" /\ geminiFailsSince = 0
    /\ out = [kind |-> "return", probe |-> TRUE]
    /\ geminiSends = 5 /\ cbOpenedAt = TickMs

---------------------------------------------------------------------------
(* Termination of the requests, checked under SpecFair *)

Pending(r) == pc[r] # "idle"
Responded(r) == out.kind = "response" /\ out.slot = r

=============================================================================
